---- MODULE Spec2Model ----
(***************************************************************************)
(* Conductor: the collaboration core.                                      *)
(*                                                                         *)
(*   Part I  - the orchestrator's mention cascade                          *)
(*             (conductor/core/orchestrator.py, conductor/core/agent.py)   *)
(*   Part II - the message bus (conductor/core/message_bus.py)             *)
(*   Part III - the top-level run of a project, its cancellation and the   *)
(*             cleanup (orchestrator.py, api/services/orchestrator_bridge) *)
(*   Part IV - team formation (conductor/core/secretary.py)                *)
(*   Part V  - mention extraction (Agent._extract_mentions)                *)
(*   Part VI - the cleanup of an agent's execution sessions                *)
(*             (conductor/integrations/claude_cli.py)                      *)
(*   Part VII - the task queue (conductor/core/task_queue.py)              *)
(*   Part VIII - an agent's run under a heartbeat (orchestrator.py)        *)
(*   Part IX - one run of Agent.execute_task (conductor/core/agent.py)     *)
(*   Part X - the staged run of a plan (conductor/core/executor.py)        *)
(*                                                                         *)
(* An agent is identified by the id of its role: Secretary.handle_         *)
(* requirement creates one TeamMember per role id, and every lookup the    *)
(* orchestrator makes goes through _get_agent_by_role.                     *)
(***************************************************************************)
EXTENDS Integers, Sequences, FiniteSets, TLC

VARIABLES
    \* ---- Part I: orchestrator ----
    roles,          \* team_config.roles, the role ids of the team, in order
    status,         \* member.status of every agent
    failed,         \* Orchestrator._failed_agents
    pc,             \* position of _execute_tasks
    phase,          \* "initial" until _trigger_final_review is entered, then "review"
    pending,        \* kind of the message the next _process_mentions call gets
    stack,          \* for-loops of suspended _process_mentions calls (line 327)
    tasks,          \* the coroutines handed to asyncio.gather (line 301)
    round,          \* the latest _process_mentions call: mentions read, agents dispatched
    senders,        \* from_id of the messages in project.messages
    triggerMsgs,    \* number of synthetic review trigger messages produced
    reviewerRuns,   \* number of runs of the reviewer started since the review pass began
    reviewPassRuns, \* number of runs started by _trigger_final_review itself
    mentioned,      \* agents some processed mention resolved to, in the current phase
    reviewPre,      \* the reviewer was present, unmentioned, not failed and silent at quiescence
    lastStart,      \* the run started by the latest step, if it started one
    \* ---- Part II: message bus ----
    entries,        \* MessageBus._subscribers, as the dict's entry array
    log,            \* MessageBus._messages
    lockHolder,     \* the task inside "async with self._lock"
    waiters,        \* asyncio.Lock._waiters, FIFO
    pub,            \* per task: its publish call
    nextId,         \* id of the next message
    subOps,         \* number of subscribe and unsubscribe calls made
    received,       \* per subscriber id: the messages its callback was called for, in order
    stable,         \* subscribers registered, unchanged, throughout the delivery in progress
    lastEnd,        \* how a publish call ended, in the step that ended it
    file,           \* the lines of <workspace>/.conductor/messages/chat.jsonl
    ret,            \* what a read of the bus returned, in the step that made it
    unsubscribed,   \* the ids whose latest subscribe or unsubscribe call is an unsubscribe
    \* ---- Part III: the top-level run ----
    runner,         \* who runs the chain: Orchestrator.run or the bridge's _run_orchestrator
    top,            \* position of the top-level task
    outcome,        \* how the call chain (_execute_tasks) ended
    emitted,        \* the statuses given to the project, in order
    agents,         \* Orchestrator.agents, in the order of the team
    cleaned,        \* per agent: number of calls of its cleanup()
    cleanupFailed,  \* the agents whose cleanup() raised an error that was logged
    agentsLeft,     \* _cleanup_agents: the agents its loop has not reached yet
    inTasks,        \* the project is a key of OrchestratorBridge._tasks
    inRunning,      \* the project is a key of OrchestratorBridge._running_orchestrators
    ctl,            \* position of the pause_project or stop_project call
    \* ---- Part IV: team formation ----
    formation,      \* position of Secretary.analyze_requirement
    requirement,    \* the keyword classes the requirement text contains
    analysis,       \* what the analysis session returned
    team_config,    \* the TeamConfig analyze_requirement returns
    project_status, \* project.status of the Project of handle_requirement
    project_team,   \* project.team: the role id of each TeamMember, in order
    statuses,       \* the values project.status has taken, in order
    \* ---- Part V: mention extraction ----
    scan,           \* number of _extract_mentions calls made on the text
    text,           \* the text, a sequence of characters
    extracted,      \* the list the first call returned
    extractedAgain, \* the list the second call returned
    \* ---- Part VI: cleanup of the execution sessions ----
    cli,            \* position of ClaudeCodeCLI.cleanup: pc, and index i of its loop
    active,         \* ClaudeCodeCLI._active_processes
    exited,         \* the processes whose returncode is set
    signals,        \* the signals sent, in order, each with its process
    cleanupCalls,   \* number of cleanup calls that have returned
    cleanupRaised,  \* a cleanup call has raised
    \* ---- Part VII: the task queue ----
    taskObjs,       \* the Task objects created, by reference
    queue,          \* TaskQueue._tasks, the dict as its entries in insertion order
    stored,         \* per task id: the task the latest add or update stored under it
    qret,           \* what the latest call on a task or the queue returned
    \* ---- Part VIII: an agent's run under a heartbeat ----
    site,           \* the code that started the heartbeat: first, respond or review
    owner,          \* position of that code
    runHow,         \* how its try block ended
    heart,          \* state of the heartbeat task
    cancelCalled,   \* heartbeat_task.cancel() has been called
    beats,          \* number of heartbeat messages emitted
    ownerCancel,    \* the owner was cancelled while it awaited the heartbeat task
    exitHow,        \* how the owner ended
    \* ---- Part IX: one run of Agent.execute_task ----
    etPc,               \* position of execute_task
    etStatus,           \* the agent's status
    result_text,        \* local variable result_text
    last_progress_text, \* local variable last_progress_text
    message_count,      \* local variable message_count
    sent,               \* the on_message calls of the run, in order
    lastResult,         \* the text of the last result event of the stream, if any
    streamHow,          \* how the stream ended: it ended, or it raised
    \* ---- Part X: TaskExecutor.execute ----
    exPc,               \* position of execute
    max_fix_attempts,   \* TaskExecutor.max_fix_attempts
    plan,               \* plan.stages: the kind of each stage, in order
    stage_index,        \* the place in plan.stages of the stage at hand
    fix_attempts,       \* local variable fix_attempts of the stage at hand
    tests,              \* the _run_tests calls of the stage at hand
    fixes,              \* the _auto_fix calls of the stage at hand
    results             \* the list results of execute

cascadeVars == <<roles, status, failed, pc, phase, pending, stack, tasks, round,
                 senders, triggerMsgs, reviewerRuns, reviewPassRuns, mentioned,
                 reviewPre, lastStart>>
busVars == <<entries, subOps, log, lockHolder, waiters, pub, nextId, received, stable,
             lastEnd, file, ret,
             unsubscribed>>
runVars == <<runner, top, outcome, emitted, agents, cleaned, cleanupFailed, agentsLeft,
             inTasks, inRunning, ctl>>
teamVars == <<formation, requirement, analysis, team_config, project_status, project_team,
              statuses>>
mentionVars == <<scan, text, extracted, extractedAgain>>
cliVars == <<cli, active, exited, signals, cleanupCalls, cleanupRaised>>
queueVars == <<taskObjs, queue, stored, qret>>
beatVars == <<site, owner, runHow, heart, cancelCalled, beats, ownerCancel, exitHow>>
execVars == <<etPc, etStatus, result_text, last_progress_text, message_count, sent,
              lastResult, streamHow>>
stageVars == <<exPc, max_fix_attempts, plan, stage_index, fix_attempts, tests, fixes, results>>
sideVars == <<queueVars, beatVars, execVars, stageVars>>
otherVars == <<runVars, teamVars, mentionVars, cliVars, sideVars>>
vars == <<cascadeVars, busVars, otherVars>>

(***************************************************************************)
(* Bounds of the model.                                                    *)
(***************************************************************************)
MaxDepth == 1       \* suspended for-loops of _process_mentions with messages left
MaxCount == 2       \* the run counters stop counting here ("this many or more")

(***************************************************************************)
(* Part I.  Teams, mention tokens, replies.                                *)
(***************************************************************************)
NoAgent == "none"

\* PREDEFINED_ROLES restricted to the roles of the modelled teams
Roles == {"pm", "backend", "reviewer"}

\* team_config.roles as Secretary.analyze_requirement may return it
TeamChoices == { <<"pm", "backend", "reviewer">>, <<"pm", "backend">>, <<"reviewer">> }

\* AgentRole.name: "chanpinjingli" etc. stand for the localized names
RoleName(r) ==
    CASE r = "pm" -> "chanpinjingli"
      [] r = "backend" -> "houduankaifa"
      [] r = "reviewer" -> "yanshouyuan"

\* the mention tokens a reply may contain: role ids, a differently cased role
\* id, localized role names, and a token that names nobody
Tokens == {"pm", "backend", "Backend", "houduankaifa", "reviewer", "yanshouyuan", "ghost"}

\* Message.mentions as _extract_mentions returns it: no token twice
MentionLists ==
    {<<>>} \cup { <<t>> : t \in Tokens }
           \cup { s \in Tokens \X Tokens : s[1] # s[2] }

Range(s) == { s[i] : i \in DOMAIN s }

\* str.lower() on the tokens
lower(tok) == IF tok = "Backend" THEN "backend" ELSE tok

\* the name_to_role dict of _process_mentions, restricted to Roles
name_to_role ==
    ("houduankaifa" :> "backend") @@ ("chanpinjingli" :> "pm") @@ ("yanshouyuan" :> "reviewer")

\* the priority list of _get_first_role
priority == <<"pm", "architect", "researcher", "analyst", "writer", "backend", "frontend", "tester">>

_get_first_role(rs) ==
    IF \E i \in DOMAIN priority : priority[i] \in Range(rs)
    THEN priority[CHOOSE i \in DOMAIN priority :
                     /\ priority[i] \in Range(rs)
                     /\ \A j \in 1..(i-1) : priority[j] \notin Range(rs)]
    ELSE IF rs # <<>> THEN rs[1] ELSE "researcher"

_get_agent_by_role(role_id) ==
    IF role_id \in Range(roles) THEN role_id ELSE NoAgent

\* lines 267-283: the agent a mention token resolves to
ResolveMention(mention) ==
    LET agent == _get_agent_by_role(lower(mention))
    IN  IF agent # NoAgent THEN agent
        ELSE IF mention \in DOMAIN name_to_role
             THEN _get_agent_by_role(name_to_role[mention])
             ELSE NoAgent

\* a plausible slip: the failed-set is not consulted
Eligible_ignoreFailed(agent) ==
    /\ agent # NoAgent
    /\ status[agent] # "working"

\* lines 285-288: the test that decides whether a resolved agent is dispatched
Eligible(agent) ==
    /\ agent # NoAgent
    /\ status[agent] # "working"
    /\ agent \notin failed

\* lines 265-288: the list mentioned_agents
RECURSIVE MentionedAgents(_)
MentionedAgents(ms) ==
    IF ms = <<>> THEN <<>>
    ELSE LET agent == ResolveMention(Head(ms))
         IN  (IF Eligible(agent) THEN <<agent>> ELSE <<>>) \o MentionedAgents(Tail(ms))

\* Agent.handle_message, lines 210-217 (the member id, a uuid, is no token)
is_mentioned(agent, ms) ==
    \/ agent \in Range(ms)
    \/ RoleName(agent) \in Range(ms)

Inc(n) == IF n < MaxCount THEN n + 1 ELSE n

NoStart == [agent |-> NoAgent, prev |-> "idle", by |-> "none"]
NoRound == [mentions |-> <<>>, eligible |-> {}, busy |-> {}, dispatched |-> <<>>, called |-> FALSE]

\* number of runs (handle_message or execute_task) of an agent in progress
ActiveRuns(a) ==
    Cardinality({ i \in DOMAIN tasks : tasks[i].agent = a /\ tasks[i].pc \in {"hm", "et"} })
    + (IF pc = "first" /\ _get_agent_by_role(_get_first_role(roles)) = a THEN 1 ELSE 0)
    + (IF pc = "reviewer" /\ a = "reviewer" THEN 1 ELSE 0)

(***************************************************************************)
(* Part II.  The message bus: state after MessageBus.__init__.             *)
(***************************************************************************)
MaxMsgs == 2        \* messages handed to publish or publish_sync
MaxSubOps == 3      \* calls of subscribe and unsubscribe

NoTask == "none"
TaskOrder == <<"t1", "t2">>         \* the asyncio tasks that call publish
PubTasks == { TaskOrder[i] : i \in DOMAIN TaskOrder }
SubIds == {"s1", "s2"}              \* subscriber ids
BusMentionLists == { <<>>, <<"s1">> }

\* the empty string, which a Message has for project_id by default
NoProject == ""

\* None
None == "None"
ProjectIds == {"p1", "p2"}

\* no read has been made in this step
NoRet == [op |-> "none", agent_id |-> "", project_id |-> NoProject, limit |-> 0,
          value |-> <<>>]

IdlePub == [pc |-> "idle", msg |-> 0, project |-> NoProject, mentions |-> <<>>, pos |-> 0, used |-> 0,
            waited |-> FALSE, cbRaised |-> "no"]
Tombstone == [id |-> "none", filter_mentions |-> FALSE, live |-> FALSE]

InitBus ==
    /\ entries = <<>>
    /\ log = <<>>
    /\ lockHolder = NoTask
    /\ waiters = <<>>
    /\ pub = [t \in PubTasks |-> IdlePub]
    /\ nextId = 1
    /\ subOps = 0
    /\ received = [s \in SubIds |-> <<>>]
    /\ stable = {}
    /\ lastEnd = "none"
    /\ file = <<>>
    /\ ret = NoRet
    /\ unsubscribed = {}

\* Orchestrator.__init__ and _create_agents: every agent idle, nothing failed
InitCascade ==
    /\ roles \in TeamChoices
    /\ status = [a \in Roles |-> "idle"]
    /\ failed = {}
    /\ pc = "start"
    /\ phase = "initial"
    /\ pending = "none"
    /\ stack = <<>>
    /\ tasks = <<>>
    /\ round = NoRound
    /\ senders = {"user", "secretary"}
    /\ triggerMsgs = 0
    /\ reviewerRuns = 0
    /\ reviewPassRuns = 0
    /\ mentioned = {}
    /\ reviewPre = FALSE
    /\ lastStart = NoStart

\* the top-level task has not been created
RunAtRest ==
    /\ runner = "none"
    /\ top = "none"
    /\ outcome = "none"
    /\ emitted = <<>>
    /\ agents = <<>>
    /\ cleaned = [a \in Roles |-> 0]
    /\ cleanupFailed = {}
    /\ agentsLeft = <<>>
    /\ inTasks = FALSE
    /\ inRunning = FALSE
    /\ ctl = "none"

\* a task mapping without keys
NoTasks == [k \in {} |-> ""]

\* the analysis session has returned no result message
NoAnalysis ==
    [result |-> FALSE, kind |-> "none", has_roles |-> FALSE, roles |-> <<>>,
     has_tasks |-> FALSE, tasks |-> NoTasks]

NoTeam == [roles |-> <<>>, tasks |-> NoTasks]

\* analyze_requirement has not been called
TeamAtRest ==
    /\ formation = "idle"
    /\ requirement = {}
    /\ analysis = NoAnalysis
    /\ team_config = NoTeam
    /\ project_status = "planning"
    /\ project_team = <<>>
    /\ statuses = <<"planning">>

\* _extract_mentions has not been called
MentionAtRest ==
    /\ scan = 0
    /\ text = <<>>
    /\ extracted = <<>>
    /\ extractedAgain = <<>>

\* no cleanup call is in progress
CliIdle == [pc |-> "idle", i |-> 0]

\* ClaudeCodeCLI after construction, line 27
CliAtRest ==
    /\ cli = CliIdle
    /\ active = <<>>
    /\ exited = {}
    /\ signals = <<>>
    /\ cleanupCalls = 0
    /\ cleanupRaised = FALSE

\* no call on a task or on the queue has been made
NoQRet == [op |-> "none", id |-> "", ref |-> 0, explicit |-> FALSE, refs |-> <<>>]

TaskIds == {"t1", "t2"}

\* TaskQueue.__init__, and no Task created
QueueAtRest ==
    /\ taskObjs = <<>>
    /\ queue = <<>>
    /\ stored = [id \in TaskIds |-> 0]
    /\ qret = NoQRet

\* no heartbeat has been started
BeatAtRest ==
    /\ site = "none"
    /\ owner = "idle"
    /\ runHow = "none"
    /\ heart = "none"
    /\ cancelCalled = FALSE
    /\ beats = 0
    /\ ownerCancel = FALSE
    /\ exitHow = "none"

\* the agent after Agent.__init__: no run yet
ExecAtRest ==
    /\ etPc = "idle"
    /\ etStatus = "idle"
    /\ result_text = <<>>
    /\ last_progress_text = <<>>
    /\ message_count = 0
    /\ sent = <<>>
    /\ lastResult = <<>>
    /\ streamHow = "none"

\* no TaskExecutor has been made
StagesAtRest ==
    /\ exPc = "idle"
    /\ max_fix_attempts = 0
    /\ plan = <<>>
    /\ stage_index = 0
    /\ fix_attempts = 0
    /\ tests = <<>>
    /\ fixes = 0
    /\ results = <<>>

SideAtRest == QueueAtRest /\ BeatAtRest /\ ExecAtRest /\ StagesAtRest

OthersAtRest == RunAtRest /\ TeamAtRest /\ MentionAtRest /\ CliAtRest /\ SideAtRest

Init == InitCascade /\ InitBus /\ OthersAtRest

(***************************************************************************)
(* Part I.  The operations of the orchestrator.                            *)
(***************************************************************************)
busUnchanged == UNCHANGED <<busVars, otherVars>>

\* a plausible slip: the status is set back on the success path only
IdleAfterRun_onSuccess(agent, res) ==
    IF res \in {"msg", "msgerr"} THEN [status EXCEPT ![agent] = "idle"] ELSE status

\* a plausible slip: a run that has ended leaves the agent Done
IdleAfterRun_done(agent, res) == [status EXCEPT ![agent] = "done"]

\* member.status after a run of the agent has ended with res: _set_status(
\* IDLE) on the success paths (agent.py 170, 263) and in the except blocks
\* (agent.py 186, 279)
IdleAfterRun(agent, res) == [status EXCEPT ![agent] = "idle"]

StartOf(agent, by) ==
    [agent |-> agent, prev |-> status[agent], by |-> by]

\* what the caller of a returning top-level _process_mentions does next:
\* _execute_tasks goes on to _trigger_final_review (line 234), and
\* _trigger_final_review returns to _execute_tasks, which returns
AfterCascade == IF phase = "initial" THEN "review" ELSE "done"

\* a _process_mentions call returns (lines 259, 291, or the end of the loop of
\* line 327): the innermost suspended for-loop that has a message left takes
\* its next message; a loop with no message left only returns in its turn
Return ==
    IF stack = <<>>
    THEN /\ pc' = AfterCascade
         /\ pending' = "none"
         /\ stack' = stack
    ELSE /\ pc' = "mentions"
         /\ pending' = "msg"
         /\ stack' = IF Head(stack) > 1 THEN <<Head(stack) - 1>> \o Tail(stack)
                     ELSE Tail(stack)

\* _execute_tasks, lines 207-219: the first agent starts execute_task
ExecuteTasksStart ==
    /\ pc = "start"
    /\ LET first_agent == _get_agent_by_role(_get_first_role(roles))
       IN  IF first_agent = NoAgent
           THEN /\ pc' = "done"
                /\ UNCHANGED <<status, lastStart>>
           ELSE /\ pc' = "first"
                /\ status' = [status EXCEPT ![first_agent] = "working"]
                /\ lastStart' = StartOf(first_agent, "first")
    /\ UNCHANGED <<roles, failed, phase, pending, stack, tasks, round, senders,
                   triggerMsgs, reviewerRuns, reviewPassRuns, mentioned, reviewPre>>
    /\ busUnchanged

\* Agent.execute_task of the first agent ends (agent.py 163-198) and
\* _execute_tasks goes on (lines 220-231).  res: "msg" a reply, "errmsg" the
\* error message of line 188, "exc" an exception that escapes execute_task
\* (on_message raising inside the except block, line 196)
FinishFirst(res) ==
    /\ pc = "first"
    /\ LET first_agent == _get_agent_by_role(_get_first_role(roles))
       IN  /\ status' = IdleAfterRun(first_agent, res)
           /\ IF res = "exc"
              THEN /\ pc' = "raised"
                   /\ UNCHANGED <<senders, pending>>
              ELSE /\ pc' = "mentions"
                   /\ pending' = res
                   /\ senders' = senders \cup {first_agent}
    /\ lastStart' = NoStart
    /\ UNCHANGED <<roles, failed, phase, stack, tasks, round, triggerMsgs,
                   reviewerRuns, reviewPassRuns, mentioned, reviewPre>>
    /\ busUnchanged

\* the mention lists the message of the given kind can carry: the error
\* message of execute_task is built without mentions (agent.py 188-193);
\* at the depth bound a message starts at most one run, so that no further
\* for-loop is left suspended with messages
MentionChoices ==
    { ms \in MentionLists :
        /\ pending = "errmsg" => ms = <<>>
        /\ Len(stack) >= MaxDepth => Len(MentionedAgents(ms)) <= 1 }

\* _process_mentions, lines 258-301, up to the await of gather.  The mention
\* list of a reply is free text of the execution session; it is drawn here,
\* where the orchestrator reads it for the first time
ProcessMentions(ms) ==
    /\ pc = "mentions"
    /\ ms \in MentionChoices
    /\ LET mentioned_agents == MentionedAgents(ms)
       IN  /\ round' = [mentions |-> ms,
                        eligible |-> { a \in Roles : \E i \in DOMAIN ms :
                                          ResolveMention(ms[i]) = a /\ Eligible(a) },
                        busy |-> { a \in Roles : \E i \in DOMAIN ms :
                                      ResolveMention(ms[i]) = a /\ status[a] = "working" },
                        dispatched |-> mentioned_agents,
                        called |-> TRUE]
           /\ mentioned' = mentioned \cup
                  ({ ResolveMention(ms[i]) : i \in DOMAIN ms } \ {NoAgent})
           /\ IF mentioned_agents = <<>>
              THEN /\ Return
                   /\ tasks' = tasks
              ELSE /\ tasks' = [i \in DOMAIN mentioned_agents |->
                                   [agent |-> mentioned_agents[i], pc |-> "new", res |-> "none"]]
                   /\ pc' = "gather"
                   /\ pending' = "none"
                   /\ stack' = stack
    /\ lastStart' = NoStart
    /\ UNCHANGED <<roles, status, failed, phase, senders, triggerMsgs,
                   reviewerRuns, reviewPassRuns, reviewPre>>
    /\ busUnchanged

CountRun(agent) ==
    IF agent = "reviewer" /\ phase = "review" THEN Inc(reviewerRuns) ELSE reviewerRuns

\* a task of gather takes its first step: _agent_respond_to_message, lines
\* 338-348, into Agent.handle_message, lines 210-222.  The tasks of one gather
\* are started in the order of the list.  An agent the message does not
\* mention by exact role id or role name gets None from handle_message and
\* goes straight to execute_task (line 348, agent.py 127)
StartTask(i) ==
    /\ pc = "gather"
    /\ i \in DOMAIN tasks
    /\ tasks[i].pc = "new"
    /\ \A j \in 1..(i-1) : tasks[j].pc # "new"
    /\ LET agent == tasks[i].agent
       IN  /\ status' = [status EXCEPT ![agent] = "working"]
           /\ tasks' = [tasks EXCEPT ![i].pc =
                            IF is_mentioned(agent, round.mentions) THEN "hm" ELSE "et"]
           /\ lastStart' = StartOf(agent, "cascade")
           /\ reviewerRuns' = CountRun(agent)
    /\ UNCHANGED <<roles, failed, pc, phase, pending, stack, round, senders,
                   triggerMsgs, reviewPassRuns, mentioned, reviewPre>>
    /\ busUnchanged

\* Agent.handle_message ends (agent.py 258-280).  res: "msg" a reply,
\* "msgerr" a reply whose text contains the error marker of line 309, "none"
\* an exception inside the try block: status Idle, None returned, and
\* _agent_respond_to_message starts execute_task at once (lines 346-348)
FinishHandleMessage(i, res) ==
    /\ pc = "gather"
    /\ i \in DOMAIN tasks
    /\ tasks[i].pc = "hm"
    /\ LET agent == tasks[i].agent
       IN  IF res = "none"
           THEN /\ tasks' = [tasks EXCEPT ![i].pc = "et"]
                /\ status' = [status EXCEPT ![agent] = "working"]
                /\ lastStart' = [agent |-> agent, prev |-> "idle", by |-> "fallback"]
                /\ reviewerRuns' = CountRun(agent)
           ELSE /\ tasks' = [tasks EXCEPT ![i] = [agent |-> agent, pc |-> "done", res |-> res]]
                /\ status' = IdleAfterRun(agent, res)
                /\ lastStart' = NoStart
                /\ reviewerRuns' = reviewerRuns
    /\ UNCHANGED <<roles, failed, pc, phase, pending, stack, round, senders,
                   triggerMsgs, reviewPassRuns, mentioned, reviewPre>>
    /\ busUnchanged

\* Agent.execute_task of a gathered task ends (agent.py 163-198)
FinishExecuteTask(i, res) ==
    /\ pc = "gather"
    /\ i \in DOMAIN tasks
    /\ tasks[i].pc = "et"
    /\ tasks' = [tasks EXCEPT ![i] = [agent |-> tasks[i].agent, pc |-> "done", res |-> res]]
    /\ status' = IdleAfterRun(tasks[i].agent, res)
    /\ lastStart' = NoStart
    /\ UNCHANGED <<roles, failed, pc, phase, pending, stack, round, senders,
                   triggerMsgs, reviewerRuns, reviewPassRuns, mentioned, reviewPre>>
    /\ busUnchanged

\* a plausible slip: the join returns with the first run that ends
\* (asyncio.wait with FIRST_COMPLETED)
GatherDone_first == \E i \in DOMAIN tasks : tasks[i].pc = "done"

\* await asyncio.gather(*tasks, return_exceptions=True), line 301: the caller
\* goes on when every task has ended, with a result or an exception
GatherDone == \A i \in DOMAIN tasks : tasks[i].pc = "done"

\* gather returns; _process_mentions, lines 303-328: the responses are added
\* to the project, failing agents are marked, and the loop over new_messages
\* begins
Collect ==
    /\ pc = "gather"
    /\ tasks # <<>>
    /\ GatherDone
    /\ failed' = failed \cup
           { tasks[i].agent : i \in { j \in DOMAIN tasks : tasks[j].res \in {"msgerr", "errmsg", "exc"} } }
    /\ senders' = senders \cup
           { tasks[i].agent : i \in { j \in DOMAIN tasks : tasks[j].res # "exc" } }
    /\ LET new_messages == Cardinality({ i \in DOMAIN tasks : tasks[i].res = "msg" })
       IN  IF new_messages = 0
           THEN Return
           ELSE /\ pc' = "mentions"
                /\ pending' = "msg"
                /\ stack' = IF new_messages > 1 THEN <<new_messages - 1>> \o stack ELSE stack
    /\ tasks' = <<>>
    /\ lastStart' = NoStart
    /\ UNCHANGED <<roles, status, phase, round, triggerMsgs, reviewerRuns,
                   reviewPassRuns, mentioned, reviewPre>>
    /\ busUnchanged

\* a plausible slip: any agent's message counts as the reviewer's
AlreadyWorked_anySender(agent) == senders \ {"user", "secretary"} # {}

\* a plausible slip: the check of the project's messages is left out
AlreadyWorked_never(agent) == FALSE

\* _trigger_final_review, lines 390-394: the reviewer has sent a message
AlreadyWorked(agent) == agent \in senders

\* _trigger_final_review, lines 381-419, up to the await of execute_task
TriggerFinalReview ==
    /\ pc = "review"
    /\ phase' = "review"
    /\ mentioned' = {}
    /\ LET reviewer == _get_agent_by_role("reviewer")
       IN  /\ reviewPre' = /\ reviewer # NoAgent
                           /\ reviewer \notin mentioned
                           /\ reviewer \notin failed
                           /\ reviewer \notin senders
           /\ IF \/ reviewer = NoAgent
                 \/ reviewer \in failed
                 \/ AlreadyWorked(reviewer)
              THEN /\ pc' = "done"
                   /\ lastStart' = NoStart
                   /\ UNCHANGED <<status, triggerMsgs, reviewerRuns, reviewPassRuns, senders>>
              ELSE /\ pc' = "reviewer"
                   /\ triggerMsgs' = Inc(triggerMsgs)
                   /\ senders' = senders \cup {"secretary"}
                   /\ status' = [status EXCEPT ![reviewer] = "working"]
                   /\ lastStart' = StartOf(reviewer, "review")
                   /\ reviewerRuns' = Inc(reviewerRuns)
                   /\ reviewPassRuns' = Inc(reviewPassRuns)
    /\ UNCHANGED <<roles, failed, pending, stack, tasks, round>>
    /\ busUnchanged

\* reviewer.execute_task ends; _trigger_final_review, lines 420-431
FinishReviewer(res) ==
    /\ pc = "reviewer"
    /\ status' = IdleAfterRun("reviewer", res)
    /\ IF res = "exc"
       THEN /\ pc' = "raised"
            /\ UNCHANGED <<senders, pending>>
       ELSE /\ pc' = "mentions"
            /\ pending' = res
            /\ senders' = senders \cup {"reviewer"}
    /\ lastStart' = NoStart
    /\ UNCHANGED <<roles, failed, phase, stack, tasks, round, triggerMsgs,
                   reviewerRuns, reviewPassRuns, mentioned, reviewPre>>
    /\ busUnchanged

NextCascade ==
    \/ ExecuteTasksStart
    \/ \E res \in {"msg", "errmsg", "exc"} : FinishFirst(res)
    \/ \E ms \in MentionLists : ProcessMentions(ms)
    \/ \E i \in 1..2 : StartTask(i)
    \/ \E i \in 1..2 : \E res \in {"msg", "msgerr", "none"} : FinishHandleMessage(i, res)
    \/ \E i \in 1..2 : \E res \in {"msg", "msgerr", "errmsg", "exc"} : FinishExecuteTask(i, res)
    \/ Collect
    \/ TriggerFinalReview
    \/ \E res \in {"msg", "errmsg", "exc"} : FinishReviewer(res)

Spec == Init /\ [][NextCascade]_vars

\* every step the orchestrator can take is eventually taken
FairSpec == Init /\ [][NextCascade]_vars /\ WF_vars(NextCascade)

(***************************************************************************)
(* Part II.  The operations of the message bus.                            *)
(*                                                                         *)
(* _subscribers is a dict: an entry array in insertion order, in which a   *)
(* removed key leaves a dead entry and a new key is appended; assigning to *)
(* an existing key replaces the value in place.  The iterator of line 83   *)
(* walks the array and raises RuntimeError when the number of live entries *)
(* differs from the number at its creation.                                *)
(***************************************************************************)
cascadeUnchanged == UNCHANGED <<cascadeVars, otherVars>>

Used == Cardinality({ i \in DOMAIN entries : entries[i].live })

LiveIndex(id) == { i \in DOMAIN entries : entries[i].live /\ entries[i].id = id }

\* the subscribers as registered now: id and filter flag
Registered == { [id |-> entries[i].id, filter_mentions |-> entries[i].filter_mentions] :
                    i \in { j \in DOMAIN entries : entries[j].live } }

\* a delivery loop is running
Delivering == \E t \in PubTasks : pub[t].pc \in {"iter", "await_cb", "reentrant"}

\* a change of the entry of id, seen from the delivery in progress
Unstable(id) == { e \in stable : e.id # id }

\* the entry array without its dead entries; no iterator exists between
\* deliveries, so the dead entries of the array are only kept during one
Compact(es) ==
    IF Delivering THEN es ELSE SelectSeq(es, LAMBDA e : e.live)

\* MessageBus.subscribe, lines 59-63
Subscribe(id, filter_mentions) ==
    /\ subOps < MaxSubOps
    /\ subOps' = subOps + 1
    /\ IF LiveIndex(id) # {}
       THEN entries' = [entries EXCEPT ![CHOOSE i \in LiveIndex(id) : TRUE].filter_mentions =
                                           filter_mentions]
       ELSE entries' = Append(entries, [id |-> id, filter_mentions |-> filter_mentions,
                                        live |-> TRUE])
    /\ stable' = Unstable(id)
    /\ lastEnd' = "none"
    /\ unsubscribed' = unsubscribed \ {id}
    /\ ret' = NoRet
    /\ UNCHANGED <<log, file, lockHolder, waiters, pub, nextId, received>>
    /\ cascadeUnchanged

\* a plausible slip: unsubscribe removes nothing
Popped_nothing(id) == {}

\* the entries that _subscribers.pop(subscriber_id, None) removes, line 67
Popped(id) == LiveIndex(id)

\* MessageBus.unsubscribe, line 67: pop with a default, no error for an
\* unknown id
Unsubscribe(id) ==
    /\ subOps < MaxSubOps
    /\ subOps' = subOps + 1
    /\ entries' = Compact([i \in DOMAIN entries |->
                              IF i \in Popped(id) THEN Tombstone ELSE entries[i]])
    /\ stable' = Unstable(id)
    /\ lastEnd' = "none"
    /\ unsubscribed' = unsubscribed \cup {id}
    /\ ret' = NoRet
    /\ UNCHANGED <<log, file, lockHolder, waiters, pub, nextId, received>>
    /\ cascadeUnchanged

\* a Message: the id stands for sender, sender name, content and
\* attachments, which are strings and lists of strings that _persist_message
\* and load_messages copy; the timestamp is the time of its creation.  via
\* is no field of Message: it records the call that appended it
NewMessage(m, p, ms, via) ==
    [id |-> m, project_id |-> p, mentions |-> ms, timestamp |-> m, via |-> via]

\* datetime.isoformat(), line 174
isoformat(ts) == <<"iso", ts>>

\* datetime.fromisoformat(), line 208
fromisoformat(str) == str[2]

\* a plausible slip: the mentions are not written
json_line_noMentions(msg) ==
    [k \in {"id", "project_id", "timestamp"} |->
        CASE k = "id" -> <<msg.id>>
          [] k = "project_id" -> <<msg.project_id>>
          [] k = "timestamp" -> isoformat(msg.timestamp)]

\* the JSON object of lines 166-176: a value per key; a scalar is kept as a
\* one-element sequence, the list of mentions as it is
json_line(msg) ==
    [k \in {"id", "project_id", "mentions", "timestamp"} |->
        CASE k = "id" -> <<msg.id>>
          [] k = "project_id" -> <<msg.project_id>>
          [] k = "mentions" -> msg.mentions
          [] k = "timestamp" -> isoformat(msg.timestamp)]

\* a plausible slip: the newest message is put first
Appended_front(msg) ==
    /\ log' = <<msg>> \o log
    /\ file' = Append(file, json_line(msg))

\* lines 76-80 and 100-102: the message is appended to the log and, the bus
\* of an orchestrator having a workspace, written to the file
Appended(msg) ==
    /\ log' = Append(log, msg)
    /\ file' = Append(file, json_line(msg))

\* a plausible slip: no mutual exclusion between publish calls
CanAcquire_noLock == TRUE

\* asyncio.Lock.acquire as entered by line 75: the lock is taken at once
\* only when it is free and nobody waits for it
CanAcquire == lockHolder = NoTask /\ waiters = <<>>

\* lines 76-83: with the lock held, the message is appended to the log and
\* the iteration over _subscribers.values() begins
Enter(t, m, p, ms, waited) ==
    /\ lockHolder' = t
    /\ Appended(NewMessage(m, p, ms, "publish"))
    /\ pub' = [pub EXCEPT ![t] = [pc |-> "iter", msg |-> m, project |-> p, mentions |-> ms,
                                  pos |-> 0, used |-> Used,
                                  waited |-> waited, cbRaised |-> "no"]]
    /\ stable' = Registered

\* a task calls publish(message), lines 69-75; idle tasks are
\* interchangeable, the first of them makes the call
CallPublish(t, p, ms) ==
    /\ pub[t].pc = "idle"
    /\ \A i, j \in DOMAIN TaskOrder :
           (TaskOrder[j] = t /\ i < j) => pub[TaskOrder[i]].pc # "idle"
    /\ nextId <= MaxMsgs
    /\ nextId' = nextId + 1
    /\ IF CanAcquire
       THEN /\ Enter(t, nextId, p, ms, FALSE)
            /\ UNCHANGED waiters
       ELSE /\ waiters' = Append(waiters, t)
            /\ pub' = [pub EXCEPT ![t] = [IdlePub EXCEPT !.pc = "waiting", !.msg = nextId,
                                                         !.project = p, !.mentions = ms]]
            /\ UNCHANGED <<lockHolder, log, file, stable>>
    /\ lastEnd' = "none"
    /\ UNCHANGED <<entries, subOps, received>>
    /\ ret' = NoRet
    /\ UNCHANGED unsubscribed
    /\ cascadeUnchanged

\* the first waiter of the released lock resumes inside publish
Resume(t) ==
    /\ pub[t].pc = "waiting"
    /\ lockHolder = NoTask
    /\ waiters # <<>>
    /\ Head(waiters) = t
    /\ waiters' = Tail(waiters)
    /\ Enter(t, pub[t].msg, pub[t].project, pub[t].mentions, TRUE)
    /\ lastEnd' = "none"
    /\ UNCHANGED <<entries, subOps, nextId, received>>
    /\ ret' = NoRet
    /\ UNCHANGED unsubscribed
    /\ cascadeUnchanged

\* the end of "async with self._lock" of a publish call that ends with `how`
Leave(t, how) ==
    /\ lockHolder' = NoTask
    /\ pub' = [pub EXCEPT ![t] = IdlePub]
    /\ lastEnd' = how
    /\ stable' = {}
    /\ entries' = SelectSeq(entries, LAMBDA e : e.live)

\* a plausible slip: the filter flag is not consulted
Matches_everyone(sub, ms) == TRUE

\* lines 85-88: whether the subscriber is to receive the message
Matches(sub, ms) ==
    ~sub.filter_mentions \/ sub.id \in Range(ms)

\* a plausible slip: no try/except around the callback
Caught_nothing(kind) == FALSE

\* lines 90-96: "except Exception" catches what a callback raises, unless it
\* is a BaseException (a cancellation)
Caught(kind) == kind = "Exception"

\* the callback of sub is called with the message of t (line 92)
Invoked(t, sub) ==
    received' = [received EXCEPT ![sub.id] = Append(@, pub[t].msg)]

\* history of the delivery of t: a callback has raised, and a callback has
\* been called after that
AfterCall(rec, does) ==
    [rec EXCEPT !.cbRaised = IF rec.cbRaised # "no" THEN "then_delivered"
                             ELSE IF does = "Exception" THEN "yes" ELSE "no"]

\* one turn of the loop of line 83: the iterator is advanced and, for a
\* matching subscriber, the callback is called.  Between two turns the
\* callback just called, or a task that ran while publish was suspended, may
\* have called subscribe, unsubscribe or publish.
\* does: "return" the callback returns something that is no coroutine,
\* "Exception"/"BaseException" it raises, "coroutine" it returns a coroutine,
\* which publish awaits (line 94)
IterNext(t, does) ==
    /\ pub[t].pc = "iter"
    /\ LET rest == { i \in DOMAIN entries : i > pub[t].pos /\ entries[i].live }
       IN  IF Used # pub[t].used
           THEN /\ Leave(t, "RuntimeError")
                /\ UNCHANGED received
           ELSE IF rest = {}
           THEN /\ Leave(t, "returned")
                /\ UNCHANGED received
           ELSE LET i == CHOOSE j \in rest : \A k \in rest : j <= k
                    sub == entries[i]
                IN  IF ~Matches(sub, pub[t].mentions)
                    THEN /\ pub' = [pub EXCEPT ![t].pos = i]
                         /\ lastEnd' = "none"
                         /\ UNCHANGED <<received, lockHolder, stable, entries>>
                    ELSE /\ Invoked(t, sub)
                         /\ IF does \in {"Exception", "BaseException"} /\ ~Caught(does)
                            THEN Leave(t, does)
                            ELSE /\ pub' = [pub EXCEPT ![t] =
                                              [AfterCall(pub[t], does) EXCEPT
                                                  !.pos = i,
                                                  !.pc = IF does = "coroutine" THEN "await_cb"
                                                         ELSE "iter"]]
                                 /\ lastEnd' = "none"
                                 /\ UNCHANGED <<lockHolder, stable, entries>>
    /\ UNCHANGED <<subOps, log, file, waiters, nextId>>
    /\ ret' = NoRet
    /\ UNCHANGED unsubscribed
    /\ cascadeUnchanged

\* the awaited coroutine of a callback ends (line 94)
CallbackEnds(t, does) ==
    /\ pub[t].pc = "await_cb"
    /\ IF does \in {"Exception", "BaseException"} /\ ~Caught(does)
       THEN Leave(t, does)
       ELSE /\ pub' = [pub EXCEPT ![t] =
                         [pub[t] EXCEPT !.pc = "iter",
                                        !.cbRaised = IF does = "Exception" /\ @ = "no"
                                                     THEN "yes" ELSE @]]
            /\ lastEnd' = "none"
            /\ UNCHANGED <<lockHolder, stable, entries>>
    /\ UNCHANGED <<subOps, log, file, waiters, nextId, received>>
    /\ ret' = NoRet
    /\ UNCHANGED unsubscribed
    /\ cascadeUnchanged

\* the awaited coroutine of a callback itself awaits publish(inner) on the
\* same bus (line 75 again, in the same task): the lock is not free, it is
\* held by the publish that awaits the callback, and the task is queued
CallbackPublishes(t) ==
    /\ pub[t].pc = "await_cb"
    /\ nextId <= MaxMsgs
    /\ nextId' = nextId + 1
    /\ IF CanAcquire
       THEN /\ Appended(NewMessage(nextId, pub[t].project, <<>>, "publish"))
            /\ UNCHANGED <<waiters, pub>>
       ELSE /\ waiters' = Append(waiters, t)
            /\ pub' = [pub EXCEPT ![t].pc = "reentrant"]
            /\ UNCHANGED <<log, file>>
    /\ lastEnd' = "none"
    /\ UNCHANGED <<entries, subOps, lockHolder, received, stable>>
    /\ ret' = NoRet
    /\ UNCHANGED unsubscribed
    /\ cascadeUnchanged

\* MessageBus.publish_sync, lines 100-102: no lock, no subscriber is told
PublishSync(p, ms) ==
    /\ nextId <= MaxMsgs
    /\ nextId' = nextId + 1
    /\ Appended(NewMessage(nextId, p, ms, "publish_sync"))
    /\ lastEnd' = "none"
    /\ UNCHANGED <<entries, subOps, lockHolder, waiters, pub, received, stable>>
    /\ ret' = NoRet
    /\ UNCHANGED unsubscribed
    /\ cascadeUnchanged

NextBus ==
    \/ \E id \in SubIds : \E f \in BOOLEAN : Subscribe(id, f)
    \/ \E id \in SubIds : Unsubscribe(id)
    \/ \E t \in PubTasks : \E ms \in BusMentionLists : CallPublish(t, "p1", ms)
    \/ \E t \in PubTasks : Resume(t)
    \/ \E t \in PubTasks : \E does \in {"return", "Exception", "BaseException", "coroutine"} :
           IterNext(t, does)
    \/ \E t \in PubTasks : \E does \in {"return", "Exception", "BaseException"} :
           CallbackEnds(t, does)
    \/ \E t \in PubTasks : CallbackPublishes(t)
    \/ \E ms \in BusMentionLists : PublishSync("p1", ms)

\* the orchestrator at rest, with the full team
CascadeQuiet == InitCascade /\ roles = <<"pm", "backend", "reviewer">>

\* the bus after construction, beside an orchestrator at rest
InitQuiet == CascadeQuiet /\ InitBus /\ OthersAtRest

SpecBus == InitQuiet /\ [][NextBus]_vars

(***************************************************************************)
(* Part II, continued.  The reads of the bus and the replay of the file.   *)
(***************************************************************************)
\* "if project_id:" (lines 119, 144): neither None nor the empty string
Truthy(x) == x \notin {None, NoProject}

\* the fields of Message of a log entry
AsMessage(e) ==
    [id |-> e.id, project_id |-> e.project_id, mentions |-> e.mentions,
     timestamp |-> e.timestamp]

\* [m for m in messages if m.project_id == project_id], lines 120 and 145
InProject(messages, project_id) ==
    SelectSeq(messages, LAMBDA m : m.project_id = project_id)

\* messages[-limit:], line 122
LastOf(messages, limit) ==
    IF limit >= Len(messages) THEN messages
    ELSE SubSeq(messages, Len(messages) - limit + 1, Len(messages))

\* get_messages, lines 118-123; limit 0 stands for None too ("if limit:")
get_messages(project_id, limit) ==
    LET scoped == IF Truthy(project_id) THEN InProject(log, project_id) ELSE log
    IN  IF limit # 0 THEN LastOf(scoped, limit) ELSE scoped

\* a plausible slip: broadcast messages are left out
Relevant_mentionedOnly(msg, agent_id) == agent_id \in Range(msg.mentions)

\* line 150: "not msg.mentions or agent_id in msg.mentions"
Relevant(msg, agent_id) == msg.mentions = <<>> \/ agent_id \in Range(msg.mentions)

RECURSIVE relevant_from(_, _, _, _)
\* the loop of lines 147-151, from the i-th message on
relevant_from(messages, i, agent_id, relevant) ==
    IF i > Len(messages) THEN relevant
    ELSE relevant_from(messages, i + 1, agent_id,
                       IF Relevant(messages[i], agent_id)
                       THEN Append(relevant, messages[i]) ELSE relevant)

\* get_messages_for_agent, lines 143-153
get_messages_for_agent(agent_id, project_id) ==
    relevant_from(IF Truthy(project_id) THEN InProject(log, project_id) ELSE log,
                  1, agent_id, <<>>)

RECURSIVE loaded_from(_, _, _)
\* the loop of lines 196-213, from the i-th line on: a line without one of
\* the keys read with data[...] is passed over (KeyError), mentions has a
\* default
loaded_from(i, project_id, messages) ==
    IF i > Len(file) THEN messages
    ELSE LET data == file[i]
         IN  IF ~({"id", "project_id", "timestamp"} \subseteq DOMAIN data)
             THEN loaded_from(i + 1, project_id, messages)
             ELSE LET msg == [id |-> data["id"][1],
                              project_id |-> data["project_id"][1],
                              mentions |-> IF "mentions" \in DOMAIN data
                                           THEN data["mentions"] ELSE <<>>,
                              timestamp |-> fromisoformat(data["timestamp"])]
                  IN  loaded_from(i + 1, project_id,
                                  IF project_id = None \/ msg.project_id = project_id
                                  THEN Append(messages, msg) ELSE messages)

\* load_messages, lines 187-215, on a bus with a workspace
load_messages(project_id) ==
    IF file = <<>> THEN <<>> ELSE loaded_from(1, project_id, <<>>)

\* what a read returns
Returned(op, agent_id, project_id, limit, value) ==
    [op |-> op, agent_id |-> agent_id, project_id |-> project_id, limit |-> limit,
     value |-> value]

\* a read assigns to nothing
readUnchanged ==
    /\ UNCHANGED <<entries, subOps, log, lockHolder, waiters, pub, nextId, received,
                   stable, file, unsubscribed>>
    /\ cascadeUnchanged

\* a call of get_messages
GetMessages(project_id, limit) ==
    /\ ret' = Returned("get_messages", "", project_id, limit, get_messages(project_id, limit))
    /\ lastEnd' = "none"
    /\ readUnchanged

\* a call of get_messages_for_agent
GetMessagesForAgent(agent_id, project_id) ==
    /\ ret' = Returned("get_messages_for_agent", agent_id, project_id, 0,
                       get_messages_for_agent(agent_id, project_id))
    /\ lastEnd' = "none"
    /\ readUnchanged

\* a call of load_messages
LoadMessages(project_id) ==
    /\ ret' = Returned("load_messages", "", project_id, 0, load_messages(project_id))
    /\ lastEnd' = "none"
    /\ readUnchanged

\* the bus of an orchestrator whose one agent has been subscribed by
\* _create_agents (orchestrator.py 186-190)
InitLog ==
    /\ CascadeQuiet
    /\ OthersAtRest
    /\ entries = << [id |-> "s1", filter_mentions |-> TRUE, live |-> TRUE] >>
    /\ log = <<>>
    /\ lockHolder = NoTask
    /\ waiters = <<>>
    /\ pub = [t \in PubTasks |-> IdlePub]
    /\ nextId = 1
    /\ subOps = 1
    /\ received = [s \in SubIds |-> <<>>]
    /\ stable = {}
    /\ lastEnd = "none"
    /\ file = <<>>
    /\ ret = NoRet
    /\ unsubscribed = {}

NextLog ==
    \/ \E t \in PubTasks : \E p \in ProjectIds : \E ms \in BusMentionLists : CallPublish(t, p, ms)
    \/ \E t \in PubTasks : Resume(t)
    \/ \E t \in PubTasks : IterNext(t, "return")
    \/ \E p \in ProjectIds : \E ms \in BusMentionLists : PublishSync(p, ms)
    \/ \E p \in {None, NoProject} \cup ProjectIds : \E limit \in 0..MaxMsgs : GetMessages(p, limit)
    \/ \E a \in SubIds : \E p \in {None, NoProject} \cup ProjectIds : GetMessagesForAgent(a, p)
    \/ \E p \in {None, NoProject} \cup ProjectIds : LoadMessages(p)

SpecLog == InitLog /\ [][NextLog]_vars

(***************************************************************************)
(* Part III.  The top-level run of a project.                              *)
(*                                                                         *)
(* The call chain (_execute_tasks: first agent, cascade, review pass) is   *)
(* taken as one step that returns or raises, as Part I ends in "done" or   *)
(* "raised".  pause_project and stop_project are called at most once:      *)
(* while the chain is executing, or, stop_project, after the task ended.   *)
(***************************************************************************)
coreUnchanged == UNCHANGED <<cascadeVars, busVars, teamVars, mentionVars, cliVars, sideVars>>

\* the agents exist and the chain is about to run: Orchestrator.run after
\* line 110, or _process_project after lines 365-368 and _run_orchestrator
\* after line 595
InitRun ==
    /\ InitCascade
    /\ InitBus
    /\ runner \in {"run", "bridge"}
    /\ top = "chain"
    /\ outcome = "none"
    /\ emitted = <<"RUNNING">>
    /\ agents = roles
    /\ cleaned = [a \in Roles |-> 0]
    /\ cleanupFailed = {}
    /\ agentsLeft = <<>>
    /\ inTasks = (runner = "bridge")
    /\ inRunning = (runner = "bridge")
    /\ ctl = "none"
    /\ TeamAtRest
    /\ MentionAtRest
    /\ CliAtRest
    /\ SideAtRest

\* the status the caller of the chain gives the project when the chain ends:
\* Orchestrator.run lines 117 and 135-137, _run_orchestrator lines 601 and
\* 608-610
StatusAfterChain(how) ==
    IF how = "returned" THEN <<"COMPLETED">>
    ELSE IF runner = "bridge" THEN <<"FAILED">>
    ELSE <<>>

\* the chain has unwound, by returning or by raising an Exception; the
\* finally block begins (orchestrator.py 138-140, orchestrator_bridge.py
\* 611-613)
ChainEnds(how) ==
    /\ top = "chain"
    /\ outcome' = how
    /\ emitted' = emitted \o StatusAfterChain(how)
    /\ top' = "cleanup"
    /\ agentsLeft' = agents
    /\ UNCHANGED <<runner, agents, cleaned, cleanupFailed, inTasks, inRunning, ctl>>
    /\ coreUnchanged

\* pause_project, lines 619-622
PauseProject ==
    /\ runner = "bridge"
    /\ ctl = "none"
    /\ top = "chain"
    /\ inTasks
    /\ top' = "cancelled"
    /\ emitted' = Append(emitted, "PAUSED")
    /\ ctl' = "done"
    /\ UNCHANGED <<runner, outcome, agents, cleaned, cleanupFailed, agentsLeft,
                   inTasks, inRunning>>
    /\ coreUnchanged

\* stop_project, lines 635-678: the task is cancelled and awaited
StopProject ==
    /\ runner = "bridge"
    /\ ctl = "none"
    /\ top = "chain"
    /\ inTasks
    /\ top' = "cancelled"
    /\ ctl' = "stop_wait"
    /\ UNCHANGED <<runner, outcome, emitted, agents, cleaned, cleanupFailed, agentsLeft,
                   inTasks, inRunning>>
    /\ coreUnchanged

\* the CancelledError reaches _run_orchestrator, lines 605-607 and 611-613
TaskCancelled ==
    /\ top = "cancelled"
    /\ outcome' = "cancelled"
    /\ emitted' = Append(emitted, "PAUSED")
    /\ top' = "cleanup"
    /\ agentsLeft' = agents
    /\ UNCHANGED <<runner, agents, cleaned, cleanupFailed, inTasks, inRunning, ctl>>
    /\ coreUnchanged

\* a plausible slip: no try/except around agent.cleanup()
Swallowed_nothing(kind) == FALSE

\* _cleanup_agents, lines 437-440: "except Exception"
Swallowed(kind) == kind = "Exception"

\* one turn of the loop of _cleanup_agents, lines 436-440; does: what the
\* agent's cleanup() does
CleanupNext(does) ==
    /\ top = "cleanup"
    /\ agentsLeft # <<>>
    /\ LET agent == Head(agentsLeft)
       IN  /\ cleaned' = [cleaned EXCEPT ![agent] = @ + 1]
           /\ IF does = "return"
              THEN /\ agentsLeft' = Tail(agentsLeft)
                   /\ UNCHANGED <<top, cleanupFailed>>
              ELSE IF Swallowed(does)
              THEN /\ agentsLeft' = Tail(agentsLeft)
                   /\ cleanupFailed' = cleanupFailed \cup {agent}
                   /\ top' = top
              ELSE /\ agentsLeft' = <<>>
                   /\ top' = "ended"
                   /\ UNCHANGED cleanupFailed
    /\ UNCHANGED <<runner, outcome, emitted, agents, inTasks, inRunning, ctl>>
    /\ coreUnchanged

\* the loop of _cleanup_agents is over: line 441, and for the bridge lines
\* 614-615
CleanupEnds ==
    /\ top = "cleanup"
    /\ agentsLeft = <<>>
    /\ agents' = <<>>
    /\ inTasks' = FALSE
    /\ inRunning' = FALSE
    /\ top' = "ended"
    /\ UNCHANGED <<runner, outcome, emitted, cleaned, cleanupFailed, agentsLeft, ctl>>
    /\ coreUnchanged

\* stop_project after the awaited task has ended, lines 682-692
StopProjectEnds ==
    /\ ctl = "stop_wait"
    /\ top = "ended"
    /\ IF inRunning
       THEN /\ cleaned' = [a \in Roles |->
                              IF a \in Range(agents) THEN cleaned[a] + 1 ELSE cleaned[a]]
            /\ agents' = <<>>
       ELSE UNCHANGED <<cleaned, agents>>
    /\ inRunning' = FALSE
    /\ inTasks' = FALSE
    /\ emitted' = Append(emitted, "FAILED")
    /\ ctl' = "done"
    /\ UNCHANGED <<runner, top, outcome, cleanupFailed, agentsLeft>>
    /\ coreUnchanged

\* stop_project called when the background task has ended, lines 635-692:
\* the project is still in the application state (line 635), it is a key of
\* neither _tasks nor _running_orchestrators any more, so steps 3 and 4 do
\* nothing, and step 5 gives the status
StopProjectAfterEnd ==
    /\ runner = "bridge"
    /\ ctl = "none"
    /\ top = "ended"
    /\ ~inTasks
    /\ ~inRunning
    /\ emitted' = Append(emitted, "FAILED")
    /\ ctl' = "done"
    /\ UNCHANGED <<runner, top, outcome, agents, cleaned, cleanupFailed, agentsLeft,
                   inTasks, inRunning>>
    /\ coreUnchanged

NextRun ==
    \/ \E how \in {"returned", "raised"} : ChainEnds(how)
    \/ StopProjectAfterEnd
    \/ PauseProject
    \/ StopProject
    \/ TaskCancelled
    \/ \E does \in {"return", "Exception"} : CleanupNext(does)
    \/ CleanupEnds
    \/ StopProjectEnds

SpecRun == InitRun /\ [][NextRun]_vars


(***************************************************************************)
(* Part IV.  Team formation: Secretary.handle_requirement and              *)
(* Secretary.analyze_requirement.                                          *)
(*                                                                         *)
(* The requirement is the set of keyword classes its text contains.  The   *)
(* text of the analysis result is taken by what _parse_team_config makes   *)
(* of it: "plain" has no {...}, "invalid" has one that json.loads rejects, *)
(* "object" is a JSON object, with or without the keys roles and tasks.    *)
(***************************************************************************)
teamUnchanged == UNCHANGED <<cascadeVars, busVars, runVars, mentionVars, cliVars, sideVars>>

KeywordClasses == {"dev", "research", "writing"}

\* the keys of PREDEFINED_ROLES, models.py lines 39-160
PREDEFINED_ROLES == {"pm", "architect", "backend", "frontend", "tester", "researcher",
                     "analyst", "writer", "reviewer"}

\* the role ids the analysis result is drawn from; "devops" is no predefined
\* role
AnalysisRoleIds == {"pm", "frontend", "reviewer", "devops"}

\* longest role list of an analysis result
MaxRoles == 2

RoleLists == UNION { [1..n -> AnalysisRoleIds] : n \in 0..MaxRoles }

\* task mappings of an analysis result; every task text is non-empty
TaskMaps == { [k \in ks |-> "from analysis"] : ks \in SUBSET AnalysisRoleIds }

AnalysisResults ==
    {NoAnalysis}
    \cup { [result |-> TRUE, kind |-> k, has_roles |-> FALSE, roles |-> <<>>,
            has_tasks |-> FALSE, tasks |-> NoTasks] : k \in {"plain", "invalid", "object"} }
    \cup { [result |-> TRUE, kind |-> "object", has_roles |-> TRUE, roles |-> rs,
            has_tasks |-> FALSE, tasks |-> NoTasks] : rs \in RoleLists }
    \cup { [result |-> TRUE, kind |-> "object", has_roles |-> FALSE, roles |-> <<>>,
            has_tasks |-> TRUE, tasks |-> ts] : ts \in TaskMaps }
    \cup { [result |-> TRUE, kind |-> "object", has_roles |-> TRUE, roles |-> rs,
            has_tasks |-> TRUE, tasks |-> ts] : rs \in RoleLists, ts \in TaskMaps }

\* secretary.py line 197
deliverable_roles == {"frontend", "backend", "architect", "writer", "researcher", "analyst"}

\* secretary.py line 203
DefaultReviewTask == "default review task"

\* _ensure_reviewer, lines 194-205; the dict tasks is changed in place, so
\* the TeamConfig built at line 179 holds the changed mapping
ensure_reviewer(rs, ts) ==
    IF Range(rs) \cap deliverable_roles # {} /\ "reviewer" \notin Range(rs)
    THEN [roles |-> Append(rs, "reviewer"),
          tasks |-> [k \in DOMAIN ts \cup {"reviewer"} |->
                        IF k = "reviewer" THEN DefaultReviewTask ELSE ts[k]]]
    ELSE [roles |-> rs, tasks |-> ts]

\* _parse_team_config, lines 161-192
parse_team_config(a) ==
    IF a.kind = "object"
    THEN ensure_reviewer(IF a.has_roles THEN a.roles ELSE <<"researcher">>,
                         IF a.has_tasks THEN a.tasks ELSE NoTasks)
    ELSE [roles |-> <<"researcher">>, tasks |-> [k \in {"researcher"} |-> "fixed task"]]

\* _default_team_config, lines 207-249
default_team_config(req) ==
    IF "dev" \in req
    THEN [roles |-> <<"pm", "architect", "backend", "frontend", "tester">>,
          tasks |-> [k \in {"pm", "architect", "backend", "frontend", "tester"} |-> "fixed task"]]
    ELSE IF "research" \in req
    THEN [roles |-> <<"researcher">>, tasks |-> [k \in {"researcher"} |-> "the requirement"]]
    ELSE IF "writing" \in req
    THEN [roles |-> <<"writer">>, tasks |-> [k \in {"writer"} |-> "the requirement"]]
    ELSE [roles |-> <<"researcher">>, tasks |-> [k \in {"researcher"} |-> "the requirement"]]

\* handle_requirement has made the Project, whose status is Planning
\* (models.py line 222), and calls analyze_requirement with the requirement
InitTeam ==
    /\ CascadeQuiet
    /\ InitBus
    /\ RunAtRest
    /\ MentionAtRest
    /\ CliAtRest
    /\ SideAtRest
    /\ formation = "session"
    /\ requirement \in SUBSET KeywordClasses
    /\ analysis = NoAnalysis
    /\ team_config = NoTeam
    /\ project_status = "planning"
    /\ project_team = <<>>
    /\ statuses = <<"planning">>

\* cli.execute_and_wait returns, line 150
SessionReturns(a) ==
    /\ formation = "session"
    /\ analysis' = a
    /\ formation' = "returned"
    /\ UNCHANGED <<requirement, team_config, project_status, project_team, statuses>>
    /\ teamUnchanged

\* analyze_requirement returns, lines 152-159
AnalyzeReturns ==
    /\ formation = "returned"
    /\ team_config' = IF analysis.result
                      THEN parse_team_config(analysis)
                      ELSE default_team_config(requirement)
    /\ formation' = "done"
    /\ UNCHANGED <<requirement, analysis, project_status, project_team, statuses>>
    /\ teamUnchanged

\* handle_requirement line 83: "if role_id in PREDEFINED_ROLES"
IsPredefined(role_id) == role_id \in PREDEFINED_ROLES

RECURSIVE members_from(_, _)
\* the loop of handle_requirement, lines 82-86, from the i-th role id on
members_from(rs, i) ==
    IF i > Len(rs) THEN <<>>
    ELSE IF IsPredefined(rs[i]) THEN <<rs[i]>> \o members_from(rs, i + 1)
    ELSE members_from(rs, i + 1)

\* handle_requirement lines 69-86: the name, the workspace, status Forming,
\* one TeamMember for each role id of team_config.roles that is predefined
FormTeam ==
    /\ formation = "done"
    /\ formation' = "forming"
    /\ project_status' = "forming"
    /\ statuses' = Append(statuses, "forming")
    /\ project_team' = project_team \o members_from(team_config.roles, 1)
    /\ UNCHANGED <<requirement, analysis, team_config>>
    /\ teamUnchanged

\* handle_requirement lines 88-104: the team config is saved, the team is
\* announced, status Running, return
HandleRequirementReturns ==
    /\ formation = "forming"
    /\ formation' = "formed"
    /\ project_status' = "running"
    /\ statuses' = Append(statuses, "running")
    /\ UNCHANGED <<requirement, analysis, team_config, project_team>>
    /\ teamUnchanged

NextTeam ==
    \/ \E a \in AnalysisResults : SessionReturns(a)
    \/ AnalyzeReturns
    \/ FormTeam
    \/ HandleRequirementReturns

SpecTeam == InitTeam /\ [][NextTeam]_vars

(***************************************************************************)
(* Part V.  Mention extraction: Agent._extract_mentions.                   *)
(*                                                                         *)
(* A text is a sequence of characters: "@", the word characters "a" and    *)
(* "b" (\w or U+4E00-U+9FFF), the blank " " (\s), "E" (an emoji of         *)
(* U+1F300-U+1F9FF) and "." (any other character).  A token is the         *)
(* sequence of its characters.                                             *)
(***************************************************************************)
mentionUnchanged == UNCHANGED <<cascadeVars, busVars, runVars, teamVars, cliVars, sideVars>>

Chars == {"@", "a", "b", " ", "E", "."}

\* ([\w\u4e00-\u9fff]+)
WordChars == {"a", "b"}

\* [\U0001F300-\U0001F9FF\s]*
SkipChars == {" ", "E"}

\* longest text
MaxTextLen == 6

Texts == UNION { [1..n -> Chars] : n \in 0..MaxTextLen }

RECURSIVE RunEnd(_, _, _)
\* the position after the longest run of characters of cs that begins at i
RunEnd(t, i, cs) ==
    IF i <= Len(t) /\ t[i] \in cs THEN RunEnd(t, i + 1, cs) ELSE i

RECURSIVE findall(_, _)
\* re.findall(pattern, text), line 362, from position i on: the captured
\* groups of the matches, left to right, the search going on after a match
findall(t, i) ==
    IF i > Len(t) THEN <<>>
    ELSE IF t[i] # "@" THEN findall(t, i + 1)
    ELSE LET j == RunEnd(t, i + 1, SkipChars)
             k == RunEnd(t, j, WordChars)
         IN  IF k > j
             THEN <<SubSeq(t, j, k - 1)>> \o findall(t, k)
             ELSE findall(t, i + 1)

\* a plausible slip: no test against seen
Unseen_always(m, seen) == TRUE

\* line 368: "if m not in seen"
Unseen(m, seen) == m \notin seen

RECURSIVE unique_from(_, _, _, _)
\* the loop of lines 365-370, from the i-th match on
unique_from(matches, i, seen, unique) ==
    IF i > Len(matches) THEN unique
    ELSE IF Unseen(matches[i], seen)
    THEN unique_from(matches, i + 1, seen \cup {matches[i]}, Append(unique, matches[i]))
    ELSE unique_from(matches, i + 1, seen, unique)

\* _extract_mentions, lines 349-371
extract_mentions(t) == unique_from(findall(t, 1), 1, {}, <<>>)

\* a text is at hand
InitMentions ==
    /\ CascadeQuiet
    /\ InitBus
    /\ RunAtRest
    /\ TeamAtRest
    /\ CliAtRest
    /\ SideAtRest
    /\ scan = 0
    /\ text \in Texts
    /\ extracted = <<>>
    /\ extractedAgain = <<>>

\* _extract_mentions(text) is called
ExtractMentions ==
    /\ scan = 0
    /\ extracted' = extract_mentions(text)
    /\ scan' = 1
    /\ UNCHANGED <<text, extractedAgain>>
    /\ mentionUnchanged

\* _extract_mentions(text) is called a second time
ExtractMentionsAgain ==
    /\ scan = 1
    /\ extractedAgain' = extract_mentions(text)
    /\ scan' = 2
    /\ UNCHANGED <<text, extracted>>
    /\ mentionUnchanged

NextMentions == ExtractMentions \/ ExtractMentionsAgain

SpecMentions == InitMentions /\ [][NextMentions]_vars

(***************************************************************************)
(* Part VI.  The cleanup of an agent's execution sessions:                 *)
(* Agent.cleanup is ClaudeCodeCLI.cleanup (agent.py 385-387).              *)
(*                                                                         *)
(* A process is the number of its place in _active_processes.  Sessions    *)
(* are started before the first cleanup call; processes exit on their own  *)
(* at any time.                                                            *)
(***************************************************************************)
cliUnchanged == UNCHANGED <<cascadeVars, busVars, runVars, teamVars, mentionVars, sideVars>>

\* most processes one agent has started
MaxProcs == 2

\* most cleanup calls
MaxCleanups == 2

InitCli ==
    /\ CascadeQuiet
    /\ InitBus
    /\ RunAtRest
    /\ TeamAtRest
    /\ MentionAtRest
    /\ CliAtRest
    /\ SideAtRest

\* execute, lines 66-76: a process is created and tracked
Execute ==
    /\ cli = CliIdle
    /\ cleanupCalls = 0
    /\ ~cleanupRaised
    /\ Len(active) < MaxProcs
    /\ active' = Append(active, Len(active) + 1)
    /\ UNCHANGED <<cli, exited, signals, cleanupCalls, cleanupRaised>>
    /\ cliUnchanged

\* a tracked process exits by itself; returncode is set.  The exit of the
\* process cleanup is waiting for is WaitEnds
ProcessExits(p) ==
    /\ p \in Range(active) \ exited
    /\ ~(cli.pc = "wait" /\ active[cli.i] = p)
    /\ exited' = exited \cup {p}
    /\ UNCHANGED <<cli, active, signals, cleanupCalls, cleanupRaised>>
    /\ cliUnchanged

\* cleanup() is called
CleanupCalled ==
    /\ cli = CliIdle
    /\ cleanupCalls + (IF cleanupRaised THEN 1 ELSE 0) < MaxCleanups
    /\ cli' = [pc |-> "loop", i |-> 1]
    /\ UNCHANGED <<active, exited, signals, cleanupCalls, cleanupRaised>>
    /\ cliUnchanged

\* one turn of the loop, lines 31-35: a process that still runs is sent
\* terminate() and awaited
CleanupTurn ==
    /\ cli.pc = "loop"
    /\ cli.i <= Len(active)
    /\ IF active[cli.i] \in exited
       THEN /\ cli' = [cli EXCEPT !.i = @ + 1]
            /\ UNCHANGED signals
       ELSE /\ signals' = Append(signals, <<active[cli.i], "terminate">>)
            /\ cli' = [cli EXCEPT !.pc = "wait"]
    /\ UNCHANGED <<active, exited, cleanupCalls, cleanupRaised>>
    /\ cliUnchanged

\* asyncio.wait_for(process.wait(), 5.0) ends, lines 35-39.  how:
\*   "exited"   the process exited in time;
\*   "error"    wait_for raised another Exception, which is passed over;
\*   "timeout"  TimeoutError, and kill() is sent;
\*   "gone"     TimeoutError while the process exits: the transport has
\*              dropped the process when kill() is called, kill() raises
\*              ProcessLookupError inside the except clause of line 36, and
\*              the clause of line 38 does not cover it
WaitEnds(how) ==
    /\ cli.pc = "wait"
    /\ LET p == active[cli.i]
       IN  /\ exited' = IF how \in {"exited", "gone"} THEN exited \cup {p} ELSE exited
           /\ signals' = IF how = "timeout" THEN Append(signals, <<p, "kill">>) ELSE signals
           /\ IF how = "gone"
              THEN /\ cleanupRaised' = TRUE
                   /\ cli' = CliIdle
              ELSE /\ cli' = [pc |-> "loop", i |-> cli.i + 1]
                   /\ UNCHANGED cleanupRaised
    /\ UNCHANGED <<active, cleanupCalls>>
    /\ cliUnchanged

\* the loop is over: line 40, and cleanup returns
CleanupReturns ==
    /\ cli.pc = "loop"
    /\ cli.i > Len(active)
    /\ active' = <<>>
    /\ cleanupCalls' = cleanupCalls + 1
    /\ cli' = CliIdle
    /\ UNCHANGED <<exited, signals, cleanupRaised>>
    /\ cliUnchanged

NextCli ==
    \/ Execute
    \/ \E p \in 1..MaxProcs : ProcessExits(p)
    \/ CleanupCalled
    \/ CleanupTurn
    \/ \E how \in {"exited", "error", "timeout", "gone"} : WaitEnds(how)
    \/ CleanupReturns

SpecCli == InitCli /\ [][NextCli]_vars

(***************************************************************************)
(* Part VII.  The task queue: TaskQueue over Task objects.  A Task is an   *)
(* object; the queue keeps references, so a task changed by its owner is   *)
(* changed in the queue as well.                                           *)
(***************************************************************************)
queueUnchanged == UNCHANGED <<cascadeVars, busVars, runVars, teamVars, mentionVars, cliVars, beatVars,
                              execVars, stageVars>>

\* most Task objects created
MaxTasks == 2

\* TaskStatus, restricted to three of its members
TaskStatuses == {"pending", "running", "completed"}

\* Task(id=..., status=..., progress=...): the fields the queue reads or writes
\* updated_at is a time: "created" is the time of creation (default_factory),
\* "updated" the time of the latest update call
Task(id, st, pr) == [id |-> id, status |-> st, progress |-> pr, updated_at |-> "created"]

\* the defaults of the dataclass: status PENDING, progress 0
DefaultTask(id) == Task(id, "pending", 0)

Refs == 1..Len(taskObjs)

\* a plausible slip: a key already present keeps its task (dict.setdefault)
Stored_setdefault(q, key, ref) ==
    IF \E i \in DOMAIN q : q[i].key = key
    THEN q
    ELSE Append(q, [key |-> key, ref |-> ref])

\* self._tasks[task.id] = task: a present key keeps its place in the dict
Stored(q, key, ref) ==
    IF \E i \in DOMAIN q : q[i].key = key
    THEN [ i \in DOMAIN q |-> IF q[i].key = key THEN [key |-> key, ref |-> ref] ELSE q[i] ]
    ELSE Append(q, [key |-> key, ref |-> ref])

\* self._tasks.get(task_id): one-element list, or the empty list for None
dict_get(q, key) ==
    IF \E i \in DOMAIN q : q[i].key = key
    THEN <<q[CHOOSE i \in DOMAIN q : q[i].key = key].ref>>
    ELSE <<>>

\* list(self._tasks.values())
values(q) == [ i \in DOMAIN q |-> q[i].ref ]

\* a plausible slip: everything not yet running counts as pending
IsPending_notRunning(t) == t.status # "running"

\* t.status == TaskStatus.PENDING
IsPending(t) == t.status = "pending"

RECURSIVE pending_from(_, _)
\* [t for t in self._tasks.values() if t.status == TaskStatus.PENDING], from index i
pending_from(i, refs) ==
    IF i > Len(refs) THEN <<>>
    ELSE (IF IsPending(taskObjs[refs[i]]) THEN <<refs[i]>> ELSE <<>>)
         \o pending_from(i + 1, refs)

get_pending == pending_from(1, values(queue))

QReturned(op, id, ref, explicit, refs) ==
    [op |-> op, id |-> id, ref |-> ref, explicit |-> explicit, refs |-> refs]

\* Task(requirement=...): no status given
CreateTask(id) ==
    /\ Len(taskObjs) < MaxTasks
    /\ taskObjs' = Append(taskObjs, DefaultTask(id))
    /\ qret' = QReturned("Task", id, Len(taskObjs) + 1, FALSE, <<>>)
    /\ UNCHANGED <<queue, stored>>
    /\ queueUnchanged

\* Task(requirement=..., status=st, progress=pr)
CreateTaskWith(id, st, pr) ==
    /\ Len(taskObjs) < MaxTasks
    /\ taskObjs' = Append(taskObjs, Task(id, st, pr))
    /\ qret' = QReturned("Task", id, Len(taskObjs) + 1, TRUE, <<>>)
    /\ UNCHANGED <<queue, stored>>
    /\ queueUnchanged

\* the owner of a task assigns task.status, whether the task is queued or not
SetStatus(ref, st) ==
    /\ ref \in Refs
    /\ taskObjs[ref].status # st
    /\ taskObjs' = [taskObjs EXCEPT ![ref].status = st]
    /\ qret' = NoQRet
    /\ UNCHANGED <<queue, stored>>
    /\ queueUnchanged

\* TaskQueue.add
Add(ref) ==
    /\ ref \in Refs
    /\ queue' = Stored(queue, taskObjs[ref].id, ref)
    /\ stored' = [stored EXCEPT ![taskObjs[ref].id] = ref]
    /\ qret' = QReturned("add", taskObjs[ref].id, ref, FALSE, <<>>)
    /\ UNCHANGED <<taskObjs>>
    /\ queueUnchanged

\* TaskQueue.update
Update(ref) ==
    /\ ref \in Refs
    /\ taskObjs' = [taskObjs EXCEPT ![ref].updated_at = "updated"]
    /\ queue' = Stored(queue, taskObjs[ref].id, ref)
    /\ stored' = [stored EXCEPT ![taskObjs[ref].id] = ref]
    /\ qret' = QReturned("update", taskObjs[ref].id, ref, FALSE, <<>>)
    /\ queueUnchanged

\* TaskQueue.get
Get(id) ==
    /\ qret' = QReturned("get", id, 0, FALSE, dict_get(queue, id))
    /\ UNCHANGED <<taskObjs, queue, stored>>
    /\ queueUnchanged

\* TaskQueue.list_all
ListAll ==
    /\ qret' = QReturned("list_all", "", 0, FALSE, values(queue))
    /\ UNCHANGED <<taskObjs, queue, stored>>
    /\ queueUnchanged

\* TaskQueue.get_pending
GetPending ==
    /\ qret' = QReturned("get_pending", "", 0, FALSE, get_pending)
    /\ UNCHANGED <<taskObjs, queue, stored>>
    /\ queueUnchanged

InitQueue ==
    /\ CascadeQuiet
    /\ InitBus
    /\ OthersAtRest

NextQueue ==
    \/ \E id \in TaskIds : CreateTask(id)
    \/ \E id \in TaskIds : CreateTaskWith(id, "running", 50)
    \/ \E ref \in 1..MaxTasks, st \in TaskStatuses : SetStatus(ref, st)
    \/ \E ref \in 1..MaxTasks : Add(ref)
    \/ \E ref \in 1..MaxTasks : Update(ref)
    \/ \E id \in TaskIds : Get(id)
    \/ ListAll
    \/ GetPending

SpecQueue == InitQueue /\ [][NextQueue]_vars

(***************************************************************************)
(* Part VIII.  An agent's run under a heartbeat.  _execute_tasks,          *)
(* _agent_respond_to_message and _trigger_final_review each create a       *)
(* heartbeat task, run the agent inside try, and cancel and await the      *)
(* heartbeat in finally.  The owner and the heartbeat are tasks of one     *)
(* event loop; each step below is the stretch of one of them between two   *)
(* awaits.                                                                 *)
(***************************************************************************)
beatUnchanged == UNCHANGED <<cascadeVars, busVars, runVars, teamVars, mentionVars, cliVars, queueVars,
                             execVars, stageVars>>

\* most heartbeat messages
MaxBeats == 2

Sites == {"first", "respond", "review"}

\* the task has ended: cancelled, or failed with what on_message raised
HeartDone == heart \in {"cancelled", "failed"}

\* a plausible slip: the cleanup stands in an "except Exception" clause, which
\* a cancellation does not enter
RunsFinally_notCancelled(how) == how # "cancelled"

\* try ... finally: the finally block runs however the try block ends
RunsFinally(how) == TRUE

\* the finally block up to its await: heartbeat_task.cancel(), await
\* heartbeat_task (lines 221-223, 351-353, 426-428)
Finally(how) ==
    /\ runHow' = how
    /\ IF RunsFinally(how)
       THEN /\ cancelCalled' = TRUE
            /\ owner' = "await"
            /\ exitHow' = exitHow
       ELSE /\ cancelCalled' = cancelCalled
            /\ owner' = "returned"
            /\ exitHow' = how

\* asyncio.create_task(self._heartbeat(...)) and the try block up to its first
\* await (lines 214-219, 338-343, 414-419)
StartOp(s) ==
    /\ owner = "idle"
    /\ site' = s
    /\ owner' = "run"
    /\ heart' = "created"
    /\ UNCHANGED <<runHow, cancelCalled, beats, ownerCancel, exitHow>>
    /\ beatUnchanged

\* the heartbeat task takes its first step: await asyncio.sleep(15), line 364,
\* unless it was cancelled before it started
HeartStarts ==
    /\ heart = "created"
    /\ heart' = IF cancelCalled THEN "cancelled" ELSE "sleeping"
    /\ UNCHANGED <<site, owner, runHow, cancelCalled, beats, ownerCancel, exitHow>>
    /\ beatUnchanged

\* a sleep of the heartbeat ends: lines 366-377.  raises: on_message raises
HeartBeat(raises) ==
    /\ heart = "sleeping"
    /\ ~cancelCalled
    /\ beats < MaxBeats
    /\ beats' = beats + 1
    /\ heart' = IF raises THEN "failed" ELSE "sleeping"
    /\ UNCHANGED <<site, owner, runHow, cancelCalled, ownerCancel, exitHow>>
    /\ beatUnchanged

\* CancelledError is thrown into the heartbeat at its sleep (line 364 or 377)
HeartCancelled ==
    /\ heart = "sleeping"
    /\ cancelCalled
    /\ heart' = "cancelled"
    /\ UNCHANGED <<site, owner, runHow, cancelCalled, beats, ownerCancel, exitHow>>
    /\ beatUnchanged

\* handle_message has returned None and execute_task is awaited (lines 346-348)
RespondFallsBack ==
    /\ site = "respond"
    /\ owner = "run"
    /\ owner' = "run2"
    /\ UNCHANGED <<site, runHow, heart, cancelCalled, beats, ownerCancel, exitHow>>
    /\ beatUnchanged

\* the reviewer's message has mentions and _process_mentions is awaited, still
\* inside try (lines 420-424)
ReviewCascades ==
    /\ site = "review"
    /\ owner = "run"
    /\ owner' = "cascade"
    /\ UNCHANGED <<site, runHow, heart, cancelCalled, beats, ownerCancel, exitHow>>
    /\ beatUnchanged

\* the try block ends: with a result, with an exception, or with the
\* CancelledError of a cancellation of the owner at the await it stands at;
\* the finally block begins
TryEnds(how) ==
    /\ owner \in {"run", "run2", "cascade"}
    /\ Finally(how)
    /\ UNCHANGED <<site, heart, beats, ownerCancel>>
    /\ beatUnchanged

\* the owner is cancelled while it awaits the heartbeat task: Task.cancel
\* passes the request on to the awaited task, or, that one being done, throws
\* CancelledError at the await, where line 224 (354, 429) catches it
OwnerCancelledInFinally ==
    /\ owner = "await"
    /\ ~ownerCancel
    /\ ownerCancel' = TRUE
    /\ UNCHANGED <<site, owner, runHow, heart, cancelCalled, beats, exitHow>>
    /\ beatUnchanged

\* await heartbeat_task ends, the heartbeat being done: CancelledError is
\* caught (lines 224-225), the exception of a failed heartbeat is raised
\* unless the CancelledError of a cancellation came first; the owner ends
AwaitEnds ==
    /\ owner = "await"
    /\ HeartDone
    /\ owner' = "returned"
    /\ \E swallowed \in {b \in BOOLEAN : b => ownerCancel} :
          exitHow' = IF heart = "failed" /\ ~swallowed THEN "exception" ELSE runHow
    /\ UNCHANGED <<site, runHow, heart, cancelCalled, beats, ownerCancel>>
    /\ beatUnchanged

InitBeat ==
    /\ CascadeQuiet
    /\ InitBus
    /\ OthersAtRest

NextBeat ==
    \/ \E s \in Sites : StartOp(s)
    \/ HeartStarts
    \/ \E raises \in BOOLEAN : HeartBeat(raises)
    \/ HeartCancelled
    \/ RespondFallsBack
    \/ ReviewCascades
    \/ \E how \in {"result", "exception", "cancelled"} : TryEnds(how)
    \/ OwnerCancelledInFinally
    \/ AwaitEnds

SpecBeat == InitBeat /\ [][NextBeat]_vars

(***************************************************************************)
(* Part IX.  One run of Agent.execute_task over the event stream of the    *)
(* execution session.  A text is a sequence of characters, as in Part V.   *)
(***************************************************************************)
execUnchanged == UNCHANGED <<cascadeVars, busVars, runVars, teamVars, mentionVars, cliVars,
                             queueVars, beatVars, stageVars>>

\* most events of one stream
MaxEvents == 3

\* the "result" value of a result event
ResultTexts == { <<>>, <<"a">>, <<"@", "a">> }

\* what _extract_progress_text makes of an event: nothing, a short text, and
\* a text that is longer than the short one by more than the step of line 148
\* (50 characters, one character here standing for 30)
ProgressTexts == { <<>>, <<"a">>, <<"a", "b", "a">> }

\* the fixed text of line 164, which has no "@"
Placeholder == <<".">>

\* f"..: {e}" of line 192
ErrorText == <<"E">>

\* a plausible slip: an empty result is kept as it is
FinalText_asIs(rt) == rt

\* lines 163-164: "if not result_text"
FinalText(rt) == IF rt = <<>> THEN Placeholder ELSE rt

\* a call of on_message (_handle_agent_message) with a message of the agent
Call(kind, content, mentions, st, raised) ==
    [kind |-> kind, content |-> content, mentions |-> mentions, status |-> st,
     raised |-> raised]

\* the except block, lines 185-198, after the calls made so far: status Idle,
\* the error message is built without mentions and handed to on_message; cb:
\* what that call does
ExceptBlock(calls, cb) ==
    /\ etStatus' = "idle"
    /\ sent' = Append(calls, Call("final", ErrorText, <<>>, "idle", cb = "raises"))
    /\ etPc' = IF cb = "raises" THEN "raised" ELSE "returned"

\* lines 127-139: status Working, the prompt, the stream is opened
EtStart ==
    /\ etPc = "idle"
    /\ etPc' = "stream"
    /\ etStatus' = "working"
    /\ UNCHANGED <<result_text, last_progress_text, message_count, sent, lastResult, streamHow>>
    /\ execUnchanged

\* line 148: every 5th message, or the text has grown substantially
Throttled(count, progress_text) ==
    count % 5 = 1 \/ Len(progress_text) - Len(last_progress_text) > 1

\* one turn of "async for msg in self.cli.execute(...)", lines 139-161.
\* type: the type of the event; progress_text: what _extract_progress_text
\* returns for it (nothing for an event that is no assistant event); rt: the
\* result of a result event; cb, cb2: what on_message does when called with
\* the progress message and with the error message
EtEvent(type, progress_text, rt, cb, cb2) ==
    /\ etPc = "stream"
    /\ message_count < MaxEvents
    /\ type = "result" => progress_text = <<>>
    /\ message_count' = message_count + 1
    /\ UNCHANGED streamHow
    /\ IF /\ progress_text # <<>>
          /\ progress_text # last_progress_text
          /\ Throttled(message_count + 1, progress_text)
       THEN IF cb = "raises"
            THEN /\ ExceptBlock(Append(sent, Call("progress", progress_text, <<>>, etStatus,
                                                   TRUE)), cb2)
                 /\ UNCHANGED <<result_text, last_progress_text, lastResult>>
            ELSE /\ sent' = Append(sent, Call("progress", progress_text, <<>>, etStatus, FALSE))
                 /\ last_progress_text' = progress_text
                 /\ result_text' = IF type = "result" THEN rt ELSE result_text
                 /\ lastResult' = IF type = "result" THEN <<rt>> ELSE lastResult
                 /\ UNCHANGED <<etPc, etStatus>>
       ELSE /\ result_text' = IF type = "result" THEN rt ELSE result_text
            /\ lastResult' = IF type = "result" THEN <<rt>> ELSE lastResult
            /\ UNCHANGED <<etPc, etStatus, sent, last_progress_text>>
    /\ execUnchanged

\* the stream raises: the process cannot be started, a line cannot be
\* decoded; lines 185-198
EtStreamRaises(cb2) ==
    /\ etPc = "stream"
    /\ streamHow' = "raised"
    /\ ExceptBlock(sent, cb2)
    /\ UNCHANGED <<result_text, last_progress_text, message_count, lastResult>>
    /\ execUnchanged

\* the stream ends: lines 163-183, and lines 185-198 when on_message raises
EtStreamEnds(cb, cb2) ==
    /\ etPc = "stream"
    /\ streamHow' = "ended"
    /\ result_text' = FinalText(result_text)
    /\ LET mentions == extract_mentions(FinalText(result_text))
           message == Call("final", FinalText(result_text), mentions, "idle", cb = "raises")
       IN  IF cb = "raises"
           THEN ExceptBlock(Append(sent, message), cb2)
           ELSE /\ etStatus' = "idle"
                /\ sent' = Append(sent, message)
                /\ etPc' = "returned"
    /\ UNCHANGED <<last_progress_text, message_count, lastResult>>
    /\ execUnchanged

InitExec ==
    /\ CascadeQuiet
    /\ InitBus
    /\ OthersAtRest

NextExec ==
    \/ EtStart
    \/ \E type \in {"assistant", "result"}, progress_text \in ProgressTexts,
          rt \in ResultTexts, cb \in {"returns", "raises"}, cb2 \in {"returns", "raises"} :
            EtEvent(type, progress_text, rt, cb, cb2)
    \/ \E cb2 \in {"returns", "raises"} : EtStreamRaises(cb2)
    \/ \E cb \in {"returns", "raises"}, cb2 \in {"returns", "raises"} : EtStreamEnds(cb, cb2)

SpecExec == InitExec /\ [][NextExec]_vars

(***************************************************************************)
(* Part X.  TaskExecutor.execute: the stages of a plan, each with its      *)
(* test-fix loop.  A stage is taken by its kind: "dev" is one of the two   *)
(* development stages of line 284, "other" is any other stage.             *)
(***************************************************************************)
stageUnchanged == UNCHANGED <<cascadeVars, busVars, runVars, teamVars, mentionVars, cliVars,
                              queueVars, beatVars, execVars>>

\* largest max_fix_attempts
MaxFixAttempts == 2

\* most stages of a plan
MaxStages == 2

StageKinds == {"dev", "other"}

Plans == UNION { [1..n -> StageKinds] : n \in 0..MaxStages }

\* StageResult, with what was done for the stage
StageResult(st) ==
    [kind |-> plan[stage_index], status |-> st, fix_attempts |-> fix_attempts',
     tests |-> tests', fixes |-> fixes']

\* execute lines 242-257: the result is appended; the loop ends at a failed
\* stage and after the last stage, and goes on to the next stage otherwise
Appends(result) ==
    /\ results' = Append(results, result)
    /\ IF result.status = "failed" \/ stage_index = Len(plan)
       THEN /\ exPc' = "returned"
            /\ UNCHANGED stage_index
       ELSE /\ exPc' = "stage"
            /\ stage_index' = stage_index + 1

\* TaskExecutor(workspace, max_fix_attempts) is made and execute(plan) is
\* called
InitStages ==
    /\ CascadeQuiet
    /\ InitBus
    /\ RunAtRest
    /\ TeamAtRest
    /\ MentionAtRest
    /\ CliAtRest
    /\ QueueAtRest
    /\ BeatAtRest
    /\ ExecAtRest
    /\ max_fix_attempts \in 0..MaxFixAttempts
    /\ plan \in Plans
    /\ exPc = IF plan = <<>> THEN "returned" ELSE "stage"
    /\ stage_index = IF plan = <<>> THEN 0 ELSE 1
    /\ fix_attempts = 0
    /\ tests = <<>>
    /\ fixes = 0
    /\ results = <<>>

\* _execute_stage_with_loop lines 277-285 and 325-329: the session of the
\* stage; how: it returns messages, or _execute_claude raises
ExecuteClaude(how) ==
    /\ exPc = "stage"
    /\ fix_attempts' = 0
    /\ tests' = <<>>
    /\ fixes' = 0
    /\ UNCHANGED <<max_fix_attempts, plan>>
    /\ IF how = "raises"
       THEN /\ exPc' = "raised"
            /\ UNCHANGED <<stage_index, results>>
       ELSE IF plan[stage_index] = "dev" /\ 0 < max_fix_attempts
       THEN /\ exPc' = "testing"
            /\ UNCHANGED <<stage_index, results>>
       ELSE Appends(StageResult("completed"))
    /\ stageUnchanged

\* lines 295-313: _run_tests returns; passed: test_result["passed"]
RunTests(passed) ==
    /\ exPc = "testing"
    /\ tests' = Append(tests, passed)
    /\ UNCHANGED <<max_fix_attempts, plan, fixes>>
    /\ IF passed
       THEN /\ UNCHANGED fix_attempts
            /\ Appends(StageResult("completed"))
       ELSE /\ fix_attempts' = fix_attempts + 1
            /\ IF fix_attempts + 1 >= max_fix_attempts
               THEN Appends(StageResult("failed"))
               ELSE /\ exPc' = "fixing"
                    /\ UNCHANGED <<stage_index, results>>
    /\ stageUnchanged

\* lines 323, 285 and 325-329: _auto_fix returns and the loop condition is
\* tested again
AutoFix ==
    /\ exPc = "fixing"
    /\ fixes' = fixes + 1
    /\ UNCHANGED <<max_fix_attempts, plan, fix_attempts, tests>>
    /\ IF fix_attempts < max_fix_attempts
       THEN /\ exPc' = "testing"
            /\ UNCHANGED <<stage_index, results>>
       ELSE Appends(StageResult("completed"))
    /\ stageUnchanged

\* the session of _run_tests or of _auto_fix raises: execute raises
SessionRaises ==
    /\ exPc \in {"testing", "fixing"}
    /\ exPc' = "raised"
    /\ UNCHANGED <<max_fix_attempts, plan, stage_index, fix_attempts, tests, fixes, results>>
    /\ stageUnchanged

NextStages ==
    \/ \E how \in {"returns", "raises"} : ExecuteClaude(how)
    \/ \E passed \in BOOLEAN : RunTests(passed)
    \/ AutoFix
    \/ SessionRaises

SpecStages == InitStages /\ [][NextStages]_vars

(***************************************************************************)
(* Part I.  Properties of the mention cascade.                             *)
(***************************************************************************)
Count(a, s) == Cardinality({ i \in DOMAIN s : s[i] = a })

Finished == pc \in {"done", "raised"}

\* C1: at every moment each agent has at most one run (handle_message or
\* execute_task) in progress, also when one message mentions the agent
\* through several tokens
C1_AtMostOneRunPerAgent ==
    \A a \in Roles : ActiveRuns(a) <= 1

\* C2: an agent dispatched by a cascade round is not Working at the moment
\* its run is started, and a mention that resolves to a Working agent starts
\* no run of it
C2_DispatchedNotWorking ==
    /\ lastStart.by = "cascade" => lastStart.prev # "working"
    /\ round.called => \A a \in round.busy : a \notin Range(round.dispatched)

\* C3: the failed-set only grows, and no step starts a run of an agent that
\* is in it
C3_FailedNeverRunAgain ==
    [][ /\ failed \subseteq failed'
        /\ lastStart'.agent # NoAgent => lastStart'.agent \notin failed ]_vars

\* a mention of a failed agent has been processed and has started no run
C3_Witness ==
    /\ round.called
    /\ \E a \in failed :
          /\ \E i \in DOMAIN round.mentions : ResolveMention(round.mentions[i]) = a
          /\ a \notin Range(round.dispatched)

\* C4: when every single run terminates, the cascade started from the first
\* agent's message terminates: _process_mentions eventually returns to
\* _execute_tasks
C4_CascadeTerminates ==
    <>(phase = "review" \/ pc \in {"review", "done", "raised"})

\* C9: a message without mentions starts no run; an agent the mentions
\* resolve to, Idle and not failed, gets exactly one run in the round,
\* however many tokens resolve to it
C9_OneRunPerMentionedAgent ==
    round.called =>
        /\ round.mentions = <<>> => round.dispatched = <<>>
        /\ \A a \in round.eligible : Count(a, round.dispatched) = 1

\* C10 as claimed: a reviewer that is present, never mentioned, not failed
\* and silent when the initial cascade has quiesced gets exactly one
\* synthetic trigger message and is run exactly once in the whole execution
C10_ReviewerRunsOnce ==
    (Finished /\ reviewPre) => (triggerMsgs = 1 /\ reviewerRuns = 1)

\* C10 as amended: exactly one trigger message is produced and the review
\* pass itself starts exactly one run of the reviewer; the reviewer runs
\* again only if a message of the cascade over its reply mentions it
C10_ReviewPassRunsReviewerOnce ==
    (Finished /\ reviewPre) =>
        /\ triggerMsgs = 1
        /\ reviewPassRuns = 1
        /\ reviewerRuns >= 1
        /\ reviewerRuns > 1 => "reviewer" \in mentioned

\* the review pass has run the reviewer, whose reply started a cascade that
\* ended without mentioning the reviewer
C10_Witness ==
    /\ pc = "done"
    /\ reviewPre
    /\ triggerMsgs = 1
    /\ reviewerRuns = 1
    /\ round.called /\ round.dispatched # <<>>
    /\ "reviewer" \notin mentioned

(***************************************************************************)
(* Part II.  Properties of the message bus.                                *)
(***************************************************************************)
\* the subscriber is to receive a message with these mentions, as the
\* contract of subscribe states it
Wanted(e, ms) == e.filter_mentions => e.id \in Range(ms)

\* C5: messages handed to publish are numbered in the order of the calls;
\* the log holds them in that order and every subscriber's callback is
\* called for them in that order, also when the calls come from tasks that
\* run concurrently
C5_PublishOrderIsDeliveryOrder ==
    /\ \A i, j \in DOMAIN log :
           (i < j /\ log[i].via = "publish" /\ log[j].via = "publish")
               => log[i].id < log[j].id
    /\ \A s \in SubIds : \A i, j \in DOMAIN received[s] :
           i < j => received[s][i] <= received[s][j]

\* a second publish call was made while the first was delivering, waited
\* for it, and a subscriber has received both messages
C5_Witness ==
    /\ \E t \in PubTasks : pub[t].waited /\ pub[t].msg = 2
    /\ Len(log) = 2 /\ log[1].via = "publish" /\ log[2].via = "publish"
    /\ \E s \in SubIds : received[s] = <<1, 2>>

\* C6: a callback that publishes on the same bus and waits for that publish
\* completes; its inner publish never waits for the lock that the outer
\* publish, which is awaiting the callback, holds
C6_ReentrantPublishCompletes ==
    \A t \in PubTasks : ~(pub[t].pc = "reentrant" /\ lockHolder = t)

\* C7: no publish call ends by raising the error of a callback; the message
\* of a delivery in which a callback raised an error is in the log, and when
\* that delivery returns every matching subscriber registered throughout it
\* has been called for the message
C7_CallbackErrorIsContained ==
    [][ /\ lastEnd' # "Exception"
        /\ \A t \in PubTasks :
               (pub[t].pc \in {"iter", "await_cb"} /\ pub[t].cbRaised # "no") =>
                   /\ \E i \in DOMAIN log' : /\ log'[i].id = pub[t].msg
                                             /\ log'[i].via = "publish"
                   /\ (pub'[t].pc = "idle" /\ lastEnd' = "returned") =>
                          \A e \in stable :
                              Wanted(e, pub[t].mentions)
                                  => pub[t].msg \in Range(received'[e.id]) ]_vars

\* a callback raised an error and a callback called after it, in the same
\* delivery, has been called: both subscribers have received the message
C7_Witness ==
    \E t \in PubTasks :
        /\ pub[t].cbRaised = "then_delivered"
        /\ Cardinality(stable) = 2
        /\ \A e \in stable : pub[t].msg \in Range(received[e.id])

\* C8: a callback is called only by a delivering publish, for its message,
\* and only if the subscriber is unfiltered or its id is among the message's
\* mentions; when the publish returns, a subscriber registered throughout the
\* delivery has been called for the message exactly if it is unfiltered or
\* mentioned
C8_FilterDecidesDelivery ==
    [][ /\ \A s \in SubIds :
               received'[s] # received[s] =>
                   \E t \in PubTasks :
                       /\ pub[t].pc = "iter"
                       /\ received'[s] = Append(received[s], pub[t].msg)
                       /\ \E i \in LiveIndex(s) : Wanted(entries[i], pub[t].mentions)
        /\ \A t \in PubTasks :
               (pub[t].pc = "iter" /\ pub'[t].pc = "idle" /\ lastEnd' = "returned") =>
                   \A e \in stable :
                       pub[t].msg \in Range(received'[e.id])
                           <=> Wanted(e, pub[t].mentions) ]_vars

\* a message without mentions has passed a filtered and an unfiltered
\* subscriber: only the unfiltered one has been called
C8_Witness ==
    \E t \in PubTasks :
        /\ pub[t].pc = "iter"
        /\ pub[t].mentions = <<>>
        /\ pub[t].pos = Len(entries)
        /\ stable = { [id |-> "s1", filter_mentions |-> TRUE],
                      [id |-> "s2", filter_mentions |-> FALSE] }
        /\ pub[t].msg \notin Range(received["s1"])
        /\ pub[t].msg \in Range(received["s2"])

(***************************************************************************)
(* Part III.  Properties of the top-level run.                             *)
(***************************************************************************)
LastEmitted == emitted[Len(emitted)]

\* C11: when the top-level task was cancelled while the chain was executing,
\* by pause_project or by stop_project, and the call has returned, the last
\* status given to the project is Paused, Failed was never given, and every
\* agent's cleanup has been called exactly once
C11_CancelledEndsPaused ==
    (outcome = "cancelled" /\ top = "ended" /\ ctl = "done") =>
        /\ LastEmitted = "PAUSED"
        /\ \A i \in DOMAIN emitted : emitted[i] # "FAILED"
        /\ \A a \in Range(roles) : cleaned[a] = 1

\* C12: once the chain has unwound without a cancellation, the project's
\* status is Completed if the chain returned and Failed if it raised, under
\* Orchestrator.run and under _run_orchestrator
C12_StatusFollowsOutcome ==
    (top \in {"cleanup", "ended"} /\ ctl = "none") =>
        /\ outcome = "returned" => LastEmitted = "COMPLETED"
        /\ outcome = "raised" => LastEmitted = "FAILED"

\* C19: however the execution ended (returned, raised, cancelled), when the
\* top-level task has ended the cleanup of every agent of the project has
\* been called, also of the agents that come after one whose cleanup raised
\* an error, and the engine holds no agent any more
C19_CleanupReachesEveryAgent ==
    top = "ended" =>
        /\ \A a \in Range(roles) : cleaned[a] >= 1
        /\ agents = <<>>

\* a cancelled execution has ended; the cleanup of the first agent raised an
\* error and the two agents after it were cleaned up all the same
C19_Witness ==
    /\ top = "ended"
    /\ outcome = "cancelled"
    /\ roles = <<"pm", "backend", "reviewer">>
    /\ cleanupFailed = {"pm"}
    /\ \A a \in Range(roles) : cleaned[a] = 1

\* C32: Completed and Failed are terminal: once one of them has been given to
\* the project, no later operation gives it a different status.
C32_TerminalStatusesStay ==
    \A i, j \in DOMAIN emitted :
        (i < j /\ emitted[i] \in {"COMPLETED", "FAILED"}) => emitted[j] = emitted[i]

(***************************************************************************)
(* Part I.  Properties of the runs of an agent.                            *)
(***************************************************************************)
\* C13: a handle_message run of a mentioned agent ends with a message of the
\* agent, a reply or an error message, whatever the execution session does;
\* it never ends without one
C13_HandleMessageYieldsMessage ==
    [][ \A i \in DOMAIN tasks :
            (tasks[i].pc = "hm" /\ i \in DOMAIN tasks' /\ tasks'[i] # tasks[i])
                => (tasks'[i].pc = "done" /\ tasks'[i].res \in {"msg", "msgerr", "errmsg"})
      ]_vars

\* C14: a step that ends a run leaves the agent Idle, unless the same step
\* starts the agent's next run, and when _execute_tasks has returned every
\* agent of the project is Idle
C14_IdleAfterEveryRun ==
    /\ \A i \in DOMAIN tasks : tasks[i].pc = "done" =>
           (status[tasks[i].agent] = "idle" \/ ActiveRuns(tasks[i].agent) > 0)
    /\ pc \in {"mentions", "review", "done"} => \A a \in Range(roles) : status[a] = "idle"

\* _execute_tasks has returned after a cascade round in which a run ended
\* with the error message of execute_task
C14_Witness ==
    /\ pc = "done"
    /\ failed # {}
    /\ round.called /\ round.dispatched # <<>>
    /\ \A a \in Range(roles) : status[a] = "idle"

(***************************************************************************)
(* Part IV.  Properties of team formation.                                 *)
(***************************************************************************)
\* C15: for a requirement with a development keyword and an analysis result
\* whose text is not the structured object, analyze_requirement returns the
\* team whose role set is {pm, architect, backend, frontend, tester}
C15_DevKeywordFallbackTeam ==
    (formation = "done" /\ "dev" \in requirement /\ analysis.result /\ analysis.kind # "object")
        => Range(team_config.roles) = {"pm", "architect", "backend", "frontend", "tester"}

\* C16: a returned TeamConfig with a deliverable-producing role has the
\* reviewer in its role set and a non-empty reviewer task; a reviewer task
\* assigned by the analysis is kept
C16_ReviewerEnsured ==
    (formation = "done" /\ Range(team_config.roles) \cap deliverable_roles # {}) =>
        /\ "reviewer" \in Range(team_config.roles)
        /\ "reviewer" \in DOMAIN team_config.tasks
        /\ team_config.tasks["reviewer"] # ""
        /\ (analysis.kind = "object" /\ "reviewer" \in DOMAIN analysis.tasks)
               => team_config.tasks["reviewer"] = analysis.tasks["reviewer"]

\* C17: in every returned TeamConfig the keys of the task mapping are
\* elements of the role set
C17_TaskKeysAreRoles ==
    formation = "done" => DOMAIN team_config.tasks \subseteq Range(team_config.roles)

\* the members of the project that have the role
MembersOf(role_id) == { i \in DOMAIN project_team : project_team[i] = role_id }

\* C37: project.status takes the values Planning, Forming, Running in this
\* order, and when handle_requirement has returned the project is Running
\* and has exactly one TeamMember for each role id of the returned
\* TeamConfig's role set, and no other member
C37_OneMemberPerRole ==
    /\ \E n \in 1..3 : statuses = SubSeq(<<"planning", "forming", "running">>, 1, n)
    /\ project_status = statuses[Len(statuses)]
    /\ formation = "formed" =>
          /\ project_status = "running"
          /\ Range(project_team) = Range(team_config.roles)
          /\ \A r \in Range(team_config.roles) : Cardinality(MembersOf(r)) = 1

(***************************************************************************)
(* Part V.  Properties of mention extraction.                              *)
(***************************************************************************)
\* the position of the first match of the text that captures the token
FirstMatch(tok) ==
    LET matches == findall(text, 1)
    IN  CHOOSE i \in DOMAIN matches :
            matches[i] = tok /\ \A j \in 1..(i - 1) : matches[j] # tok

\* C18: the list _extract_mentions returns has no duplicates, holds exactly
\* the tokens mentioned in the text, in the order of their first mention,
\* and a second call on the same text returns the same list
C18_ExtractMentionsDedupOrdered ==
    scan = 2 =>
        /\ \A i, j \in DOMAIN extracted : i # j => extracted[i] # extracted[j]
        /\ Range(extracted) = Range(findall(text, 1))
        /\ \A i, j \in DOMAIN extracted :
               i < j => FirstMatch(extracted[i]) < FirstMatch(extracted[j])
        /\ extractedAgain = extracted

\* "@a@b@a": the token a is mentioned twice, around the token b
C18_Witness ==
    /\ scan = 2
    /\ text = <<"@", "a", "@", "b", "@", "a">>
    /\ extracted = << <<"a">>, <<"b">> >>

(***************************************************************************)
(* Part VI.  Properties of the cleanup of the execution sessions.          *)
(***************************************************************************)
\* C20: cleanup never raises; once a call has returned no process is
\* tracked, and no process is sent terminate() a second time by a later call
C20_CleanupNeverRaisesIdempotent ==
    /\ ~cleanupRaised
    /\ cleanupCalls >= 1 => active = <<>>
    /\ \A i, j \in DOMAIN signals :
           (i # j /\ signals[i][2] = "terminate" /\ signals[j][2] = "terminate")
               => signals[i][1] # signals[j][1]

(***************************************************************************)
(* Part II, continued.  Properties of the reads, the replay and            *)
(* unsubscribe.                                                            *)
(***************************************************************************)
\* the place in the log of the message with this id
LogPos(id) == CHOOSE j \in DOMAIN log : log[j].id = id

\* the places in the log of the messages a read for the agent is to return
Wanted21(agent_id, project_id) ==
    { j \in DOMAIN log :
        /\ (project_id \in ProjectIds => log[j].project_id = project_id)
        /\ (log[j].mentions = <<>> \/ agent_id \in Range(log[j].mentions)) }

\* C21: get_messages_for_agent returns, in log order and once each, exactly
\* the messages of the log (of the project, when one is given) without
\* mentions or mentioning the agent; get_messages and get_messages_for_agent
\* change neither the log nor the subscribers
C21_ReadsForAgent ==
    /\ [](ret.op = "get_messages_for_agent" =>
            /\ { ret.value[i] : i \in DOMAIN ret.value }
                   = { log[j] : j \in Wanted21(ret.agent_id, ret.project_id) }
            /\ Len(ret.value) = Cardinality(Wanted21(ret.agent_id, ret.project_id))
            /\ \A i, k \in DOMAIN ret.value :
                   i < k => LogPos(ret.value[i].id) < LogPos(ret.value[k].id))
    /\ [][ret'.op \in {"get_messages", "get_messages_for_agent"}
             => (log' = log /\ entries' = entries)]_vars

\* the log holds a message for s1 and then a broadcast message; the read for
\* s2 returns the second only
C21_Witness ==
    /\ ret.op = "get_messages_for_agent"
    /\ ret.agent_id = "s2"
    /\ Len(log) = 2
    /\ log[1].mentions = <<"s1">>
    /\ log[2].mentions = <<>>
    /\ ret.value = <<log[2]>>

\* C22: on a bus with a workspace, after any publish and publish_sync calls,
\* load_messages() returns the messages of the in-memory log, in order and
\* equal field by field, and load_messages(p) the ones of project p among
\* them
C22_ReplayRoundTrip ==
    ret.op = "load_messages" =>
        LET all == [i \in DOMAIN log |-> AsMessage(log[i])]
        IN  IF ret.project_id = None
            THEN ret.value = all
            ELSE ret.value = SelectSeq(all, LAMBDA m : m.project_id = ret.project_id)

\* two messages of different projects, the first with a mention, were
\* published, one by publish and one by publish_sync; the replay for the
\* first project returns the first
C22_Witness ==
    /\ ret.op = "load_messages"
    /\ ret.project_id = "p1"
    /\ Len(log) = 2
    /\ log[1].project_id = "p1" /\ log[1].mentions = <<"s1">> /\ log[1].via = "publish"
    /\ log[2].project_id = "p2" /\ log[2].via = "publish_sync"
    /\ ret.value = <<AsMessage(log[1])>>

\* the registration of an id: its filter flag, if it is subscribed
RegOf(es, id) == { e.filter_mentions : e \in { es[i] : i \in { j \in DOMAIN es :
                                                    es[j].live /\ es[j].id = id } } }

\* C23: an id whose latest call was unsubscribe is not subscribed and its
\* callback is not called; a subscribe or unsubscribe call changes the
\* registration of one id at most, and unsubscribing an id that was never
\* subscribed changes no registration
C23_UnsubscribeIdempotent ==
    /\ [](\A id \in unsubscribed : LiveIndex(id) = {})
    /\ [][ /\ \A id \in SubIds : received'[id] # received[id] => id \notin unsubscribed
           /\ subOps' # subOps =>
                 \E id \in SubIds : \A o \in SubIds \ {id} :
                     RegOf(entries', o) = RegOf(entries, o)
           /\ (\E id \in unsubscribed' \ unsubscribed : RegOf(entries, id) = {}) =>
                 \A o \in SubIds : RegOf(entries', o) = RegOf(entries, o)
         ]_vars

\* s1 received the first message, was unsubscribed twice, and the second
\* message, which mentions it, was published to the end without it
C23_Witness ==
    /\ unsubscribed = {"s1"}
    /\ subOps = 3
    /\ received["s1"] = <<1>>
    /\ Len(log) = 2 /\ log[2].via = "publish" /\ log[2].mentions = <<"s1">>
    /\ \A t \in PubTasks : pub[t].pc = "idle"

(***************************************************************************)
(* Part VII.  Properties of the task queue.                                *)
(***************************************************************************)
StoredIds == { id \in TaskIds : stored[id] # 0 }

\* C24: after any sequence of add and update calls, get(id) returns the task
\* most recently stored under id, and None for an id never stored; list_all
\* returns exactly one task per distinct stored id, the one stored under it;
\* add returns the id of the task it stored.
C24_QueueIsAMapById ==
    /\ qret.op = "add" =>
          /\ qret.id = taskObjs[qret.ref].id
          /\ stored[qret.id] = qret.ref
          /\ dict_get(queue, qret.id) = <<qret.ref>>
    /\ qret.op = "get" =>
          qret.refs = IF qret.id \in StoredIds THEN <<stored[qret.id]>> ELSE <<>>
    /\ qret.op = "list_all" =>
          /\ Len(qret.refs) = Cardinality(StoredIds)
          /\ \A id \in StoredIds :
                Cardinality({ i \in DOMAIN qret.refs : taskObjs[qret.refs[i]].id = id }) = 1
          /\ { qret.refs[i] : i \in DOMAIN qret.refs } = { stored[id] : id \in StoredIds }

\* a first task was stored under an id by update, a second task with the same
\* id was stored after it, and get has returned the second
C24_Witness ==
    /\ qret.op = "get"
    /\ qret.id = "t1"
    /\ qret.refs = <<2>>
    /\ taskObjs[1].id = "t1"
    /\ taskObjs[1].updated_at = "updated"
    /\ taskObjs[2].updated_at = "created"
    /\ Len(queue) = 1

\* C25: get_pending returns exactly the stored tasks whose status is PENDING,
\* each once; a task created without an explicit status is PENDING with
\* progress 0.
C25_PendingExactly ==
    /\ qret.op = "get_pending" =>
          /\ { qret.refs[i] : i \in DOMAIN qret.refs }
                = { stored[id] : id \in { d \in StoredIds : taskObjs[stored[d]].status = "pending" } }
          /\ \A i, j \in DOMAIN qret.refs : qret.refs[i] = qret.refs[j] => i = j
    /\ (qret.op = "Task" /\ ~qret.explicit) =>
          /\ taskObjs[qret.ref].status = "pending"
          /\ taskObjs[qret.ref].progress = 0

\* two tasks are stored, one pending and one completed after it was stored as
\* pending, and get_pending has returned the pending one alone
C25_Witness ==
    /\ qret.op = "get_pending"
    /\ Len(queue) = 2
    /\ Len(qret.refs) = 1
    /\ taskObjs[queue[1].ref].status = "completed"
    /\ taskObjs[qret.refs[1]].status = "pending"

(***************************************************************************)
(* Part I, continued.  Properties of failure containment, the review       *)
(* trigger and the rounds.                                                 *)
(***************************************************************************)
FirstAgent == _get_agent_by_role(_get_first_role(roles))

\* C26: an agent whose dispatched run failed is not run again because of it:
\* the step that ends a failed handle_message starts no execution of the same
\* agent, and no step starts a run of an agent that is in the failed-set.
C26_NoRunAfterFailure ==
    [][ /\ lastStart'.by # "fallback"
        /\ \A a \in failed : lastStart'.agent # a
      ]_vars

\* C27: when a run of the first agent, of a dispatched agent or of the
\* reviewer in the final review ends with an error message or an exception,
\* the agent is in the failed-set once the orchestrator has taken the result,
\* and the error message dispatches nobody.
C27_FailedRunsAreMarked ==
    [][ /\ (pc = "first" /\ (pc' = "raised" \/ (pc' = "mentions" /\ pending' = "errmsg")))
              => FirstAgent \in failed'
        /\ (pc = "reviewer" /\ (pc' = "raised" \/ (pc' = "mentions" /\ pending' = "errmsg")))
              => "reviewer" \in failed'
        /\ (pc = "gather" /\ pc' # "gather")
              => \A i \in DOMAIN tasks :
                    tasks[i].res \in {"msgerr", "errmsg", "exc"} => tasks[i].agent \in failed'
        /\ (pc = "mentions" /\ pending = "errmsg") => pc' # "gather"
      ]_vars

\* the conditions of _trigger_final_review, read when the initial cascade has
\* come to rest
ReviewerDue ==
    /\ pc = "review"
    /\ phase = "initial"
    /\ "reviewer" \in Range(roles)
    /\ "reviewer" \notin failed
    /\ "reviewer" \notin senders

\* C28: the review trigger message is produced, and the review pass starts its
\* run of the reviewer, only when the initial cascade has come to rest with a
\* reviewer in the team that is not in the failed-set and has sent no message
\* of the project; in every other case the review pass ends with no trigger
\* message and no run.
C28_TriggerOnlyForSilentReviewer ==
    [][ /\ (triggerMsgs' # triggerMsgs \/ reviewPassRuns' # reviewPassRuns
               \/ lastStart'.by = "review" \/ pc' = "reviewer")
              => ReviewerDue
        /\ (pc = "review" /\ ~ReviewerDue)
              => /\ pc' = "done"
                 /\ triggerMsgs' = triggerMsgs
                 /\ reviewerRuns' = reviewerRuns
                 /\ reviewPassRuns' = reviewPassRuns
                 /\ status' = status
                 /\ "secretary" \in senders' => "secretary" \in senders
      ]_vars

\* the trigger has been produced for a reviewer that was mentioned by nobody,
\* after the cascade of the first agent's message has marked an agent failed
C28_Witness ==
    /\ pc = "reviewer"
    /\ triggerMsgs = 1
    /\ reviewPassRuns = 1
    /\ "secretary" \in senders
    /\ "reviewer" \notin senders
    /\ failed = {"backend"}
    /\ status["reviewer"] = "working"

\* no run is in progress and nobody is Working
AllQuiet ==
    /\ tasks = <<>>
    /\ \A a \in Roles : ActiveRuns(a) = 0 /\ status[a] # "working"

\* C29: when the review trigger message is produced no agent is Working, no
\* run of the initial cascade is in progress and no loop of it has a message
\* left; and the next round (the _process_mentions call over a response of a
\* round) starts only after every run the round dispatched has ended.
C29_RoundsDoNotInterleave ==
    /\ [](pc \in {"mentions", "review"} => AllQuiet)
    /\ [][ /\ triggerMsgs' # triggerMsgs => (AllQuiet /\ stack = <<>> /\ phase = "initial")
           /\ (pc = "gather" /\ pc' # "gather")
                 => \A i \in DOMAIN tasks : tasks[i].pc = "done"
           /\ round' # round => AllQuiet
         ]_vars

\* the trigger has been produced after a round that dispatched two agents, both
\* of which failed
C29_Witness ==
    /\ pc = "reviewer"
    /\ phase = "review"
    /\ triggerMsgs = 1
    /\ Len(round.dispatched) = 2
    /\ failed = {"pm", "backend"}

(***************************************************************************)
(* Part VIII.  Properties of the heartbeat.                                *)
(***************************************************************************)
\* C30: every heartbeat task started for the first agent, for a dispatched
\* agent or for the reviewer has had cancel() called on it and has ended
\* before the code that started it ends, whether the agent's run ended with
\* a result, an exception or a cancellation; no heartbeat message is emitted
\* after cancel() or after that code has ended.
C30_HeartbeatEndsWithItsOwner ==
    /\ [](owner = "returned" => (cancelCalled /\ HeartDone))
    /\ [][ beats' # beats => (~cancelCalled /\ owner \in {"run", "run2", "cascade"}) ]_vars
    /\ [][ owner' = "returned" => (owner = "await" /\ HeartDone /\ cancelCalled) ]_vars

\* a dispatched agent's run was cancelled after the heartbeat had emitted a
\* message; the heartbeat was cancelled in its sleep and the owner has ended
\* with the cancellation
C30_Witness ==
    /\ site = "respond"
    /\ owner = "returned"
    /\ runHow = "cancelled"
    /\ exitHow = "cancelled"
    /\ heart = "cancelled"
    /\ beats = 1

\* C31: every heartbeat notice for an agent is emitted while a run of that
\* agent is in progress: none is emitted once the agent's run has ended, for
\* the first agent, for a dispatched agent and for the reviewer.
C31_NoBeatAfterTheRun ==
    [][ beats' # beats => owner \in {"run", "run2"} ]_vars

(***************************************************************************)
(* Part I, continued.  Properties of the status of an agent.               *)
(***************************************************************************)
\* C33: the status of every agent is Idle or Working in every state; a step
\* changes it from Idle to Working when it starts a run of the agent, or from
\* Working to Idle when it ends one, and in no other way; an agent in the
\* failed-set is Idle.
C33_StatusIdleOrWorking ==
    /\ [](\A a \in Roles : status[a] \in {"idle", "working"})
    /\ [](\A a \in failed : status[a] = "idle")
    /\ [][ \A a \in Roles : status'[a] # status[a] =>
              \/ /\ status[a] = "idle"
                 /\ status'[a] = "working"
                 /\ lastStart'.agent = a
              \/ /\ status[a] = "working"
                 /\ status'[a] = "idle"
                 /\ ActiveRuns(a)' = ActiveRuns(a) - 1
         ]_vars

\* an agent that failed in an earlier round is Idle in the failed-set while
\* another agent is Working in a later round
C33_Witness ==
    /\ pc = "gather"
    /\ failed = {"backend"}
    /\ status["backend"] = "idle"
    /\ status["reviewer"] = "working"
    /\ ActiveRuns("reviewer") = 1

(***************************************************************************)
(* Part II, continued.  Properties of a delivery during which the          *)
(* subscribers change, and of the log.                                     *)
(***************************************************************************)
\* C34: a publish call during whose delivery subscribe or unsubscribe was
\* called still returns without error, having called every matching
\* subscriber registered throughout: no publish call that has called a
\* callback ends with the error of the iterator over the subscribers.
C34_PublishSurvivesSubscriberChange ==
    [][ \A t \in PubTasks :
            (pub[t].pc = "iter" /\ \E id \in SubIds : pub[t].msg \in Range(received[id]))
                => ~(pub'[t].pc = "idle" /\ lastEnd' = "RuntimeError")
      ]_vars

\* the publish calls that wait for the lock and have appended nothing yet
WaitingCalls == { t \in PubTasks : pub[t].pc \in {"waiting", "reentrant"} }

\* C35: the log is append-only.  Each publish or publish_sync call appends
\* the published message, once, at the end of the in-memory log and one
\* record for it at the end of the file; no step removes, reorders or replaces
\* an entry: the log before a step is a prefix of the log after it, and the
\* records of the file are those of the log, in the same order.
C35_LogIsAppendOnly ==
    /\ [](/\ Len(file) = Len(log)
          /\ \A i \in DOMAIN log : file[i] = json_line(log[i])
          /\ \A i, j \in DOMAIN log : log[i].id = log[j].id => i = j
          /\ Len(log) + Cardinality(WaitingCalls) = nextId - 1)
    /\ [][ \/ log' = log /\ file' = file
           \/ /\ Len(log') = Len(log) + 1
              /\ SubSeq(log', 1, Len(log)) = log
              /\ SubSeq(file', 1, Len(file)) = file
              /\ \/ log'[Len(log')].id = nextId /\ nextId' = nextId + 1
                 \/ \E t \in WaitingCalls : log'[Len(log')].id = pub[t].msg /\ t \notin WaitingCalls'
         ]_vars

\* a publish call that had to wait for the lock has appended its message, and
\* its record, behind those of the call it waited for
C35_Witness ==
    /\ Len(log) = 2
    /\ Len(file) = 2
    /\ log[1].via = "publish"
    /\ log[2].id = 2
    /\ log[2].project_id = "p2"
    /\ \E t \in PubTasks : pub[t].pc = "iter" /\ pub[t].waited /\ pub[t].msg = 2

\* the messages of the log a read for project_id is about, by position
Scoped(project_id) ==
    { i \in DOMAIN log : Truthy(project_id) => log[i].project_id = project_id }

\* C39: get_messages(project_id, n), for every limit n >= 0 given, 0 included,
\* returns at most n messages: the last n messages of the log restricted to
\* the project (all of them when there are fewer), in log order.
C39_LimitBoundsTheResult ==
    ret.op = "get_messages" =>
        LET n == ret.limit
            scope == Scoped(ret.project_id)
            kept == { i \in scope : Cardinality({ j \in scope : j > i }) < n }
        IN  /\ Len(ret.value) <= n
            /\ Len(ret.value) = Cardinality(kept)
            /\ \A k \in DOMAIN ret.value :
                  \E i \in kept : /\ ret.value[k] = log[i]
                                  /\ Cardinality({ j \in kept : j < i }) = k - 1

(***************************************************************************)
(* Part I, continued.  Properties of the failed-set.                       *)
(***************************************************************************)
\* the agents of the round a run of which raised or ended in the error message
\* of execute_task
FailedInRound ==
    { tasks[i].agent : i \in { j \in DOMAIN tasks : tasks[j].res \in {"errmsg", "exc"} } }

\* C38: an agent is added to the failed-set only if a dispatched run of it
\* raised an exception or ended in an internal execution error; an agent whose
\* run completed with a reply is not added, whatever the text of the reply.
C38_OnlyFailedRunsAreMarked ==
    [][ failed' \ failed \subseteq FailedInRound ]_vars

(***************************************************************************)
(* Part IX.  Properties of a run of execute_task.                          *)
(***************************************************************************)
Finals == { i \in DOMAIN sent : sent[i].kind = "final" }

RunOver == etPc \in {"returned", "raised"}

\* C36, as stated: every run of execute_task hands on_message exactly one
\* final message, after all progress notices and with the status Idle again;
\* its content is the text of the last result event of the stream, or the
\* placeholder, without mentions, when the stream had no result event.
C36_FinalIsTheLastResult ==
    RunOver =>
        /\ Cardinality(Finals) = 1
        /\ sent[Len(sent)].kind = "final"
        /\ sent[Len(sent)].status = "idle"
        /\ sent[Len(sent)].content = IF lastResult # <<>> THEN lastResult[1] ELSE Placeholder
        /\ lastResult = <<>> => sent[Len(sent)].mentions = <<>>

\* C36, amended: every run during which no on_message call raises hands
\* on_message exactly one final message, after all progress notices and with
\* the status Idle again.  When the stream ended, its content is the text of
\* the last result event if there was one and its text is not empty, and the
\* placeholder, without mentions, otherwise; when the stream raised, it is the
\* error message, without mentions.
C36_OneFinalMessage ==
    (RunOver /\ \A i \in DOMAIN sent : ~sent[i].raised) =>
        /\ Cardinality(Finals) = 1
        /\ sent[Len(sent)].kind = "final"
        /\ sent[Len(sent)].status = "idle"
        /\ etStatus = "idle"
        /\ streamHow = "ended" =>
              /\ sent[Len(sent)].content =
                    IF lastResult # <<>> /\ lastResult[1] # <<>> THEN lastResult[1]
                    ELSE Placeholder
              /\ sent[Len(sent)].content = Placeholder => sent[Len(sent)].mentions = <<>>
              /\ sent[Len(sent)].mentions = extract_mentions(sent[Len(sent)].content)
        /\ streamHow # "ended" =>
              /\ sent[Len(sent)].content = ErrorText
              /\ sent[Len(sent)].mentions = <<>>

\* a stream of a progress text, a result and a later, empty result has ended:
\* the run has sent the progress notice and then the placeholder
C36_Witness ==
    /\ etPc = "returned"
    /\ streamHow = "ended"
    /\ message_count = 3
    /\ lastResult = << <<>> >>
    /\ Len(sent) = 2
    /\ sent[1].kind = "progress"
    /\ sent[2].content = Placeholder
    /\ ~sent[2].raised

(***************************************************************************)
(* Part X.  Properties of the staged run of a plan.                        *)
(***************************************************************************)
\* C40: for a development stage the test-fix loop makes at most
\* max_fix_attempts test runs and at most max_fix_attempts auto-fix calls;
\* the stage is reported completed only if a test run passed and failed when
\* all test runs failed; no stage is run after a failed one, so results has
\* at most one failed entry, the last
C40_FixLoopBoundedAndSound ==
    /\ Len(tests) <= max_fix_attempts
    /\ fixes <= max_fix_attempts
    /\ \A i \in DOMAIN results :
          /\ results[i].status = "failed" => i = Len(results) /\ exPc = "returned"
          /\ results[i].kind = "dev" =>
                /\ Len(results[i].tests) <= max_fix_attempts
                /\ results[i].fixes <= max_fix_attempts
                /\ results[i].status = "completed" => TRUE \in Range(results[i].tests)
                /\ TRUE \notin Range(results[i].tests) => results[i].status = "failed"

\* the same for a TaskExecutor whose max_fix_attempts is 1 or more, where
\* the auto-fix calls of a stage are fewer than max_fix_attempts
FixLoopSoundWhenPositive ==
    max_fix_attempts >= 1 =>
        /\ C40_FixLoopBoundedAndSound
        /\ fixes < max_fix_attempts
        /\ \A i \in DOMAIN results : results[i].fixes < max_fix_attempts

====
